---- MODULE Spec2Model ----
(***************************************************************************)
(* HealthOracle: identity store, password / federated login and the OTP    *)
(* password-recovery flow.  The handlers exist in two copies: the modules  *)
(* (database.py, auth.py, password_reset.py, email_service.py) and the     *)
(* routes of app.py; impl says which copy serves.  /signup and /forgot are *)
(* the same in both; login, auth_google and google_link differ.            *)
(*                                                                         *)
(* Spec      each request handler runs to completion (one action each).    *)
(*           SpecRecovery and SpecAuth are its two halves: the recovery    *)
(*           flow without the sessions, the sign-in flows without the OTPs.*)
(* SpecConc  the handlers run as threads of the threaded Flask server:     *)
(*           every access to the database or to OTP_STORE is its own step  *)
(*           and the steps of different requests interleave.               *)
(***************************************************************************)
EXTENDS Integers, Sequences, FiniteSets, TLC

VARIABLES
    users,      \* table users: user_id -> row (user_id is the PRIMARY KEY)
    OTP_STORE,  \* password_reset.OTP_STORE: user_id -> {otp, email, timestamp}
    session,    \* the Flask session of each browser: key -> value
    now,        \* time.time(), in whole seconds
    req,        \* SpecConc: the requests in flight, their position and locals
    users0,     \* history: the table users as the requests of req found it
    impl,       \* which copy of the handlers serves: "modules" (auth.py,
                \* password_reset.py, database.py) or "app" (the routes of app.py)
    alloc_max,  \* SpecAlloc: max_id, the MAX that get_next_user_id reads from
                \* the table users after the creations of a long run
    allocated,  \* SpecAlloc: the user_id that get_next_user_id returned last
    boot        \* SpecRestart: how many times the server process was restarted

vars == <<users, OTP_STORE, session, now, req, users0, impl, alloc_max, allocated, boot>>

-----------------------------------------------------------------------------
(* Bounds of the model *)

MaxUsers == 2
MaxTime == 601
MaxDrift == 1
NumReqs == 2

\* The creations that SpecAlloc follows
MaxAlloc == 10002

\* The restarts of the server that SpecRestart follows
MaxBoots == 1

(* Constants of the program *)

OTP_TTL == 600
MinPasswordLen == 8
OtpLow == 100000
OtpHigh == 999999

None == "None"

\* The repository holds the handlers twice: as the functions of auth.py and
\* password_reset.py over database.py, and as the routes of app.py.
Impls == {"modules", "app"}

-----------------------------------------------------------------------------
(* Strings *)

Digits == <<"0", "1", "2", "3", "4", "5", "6", "7", "8", "9">>

IsDigit(c) == \E i \in 1..10 : Digits[i] = c

DigitVal(c) == (CHOOSE i \in 1..10 : Digits[i] = c) - 1

CharAt(s, i) == SubSeq(s, i, i)

HasChar(s, c) == \E i \in 1..Len(s) : CharAt(s, i) = c

StartsWith(s, p) == Len(s) >= Len(p) /\ SubSeq(s, 1, Len(p)) = p

RECURSIVE Strip(_)
Strip(s) ==
    IF s = "" THEN s
    ELSE IF CharAt(s, 1) = " " THEN Strip(SubSeq(s, 2, Len(s)))
    ELSE IF CharAt(s, Len(s)) = " " THEN Strip(SubSeq(s, 1, Len(s) - 1))
    ELSE s

\* substring in s
Contains(s, sub) ==
    \E i \in 1..(Len(s) - Len(sub) + 1) : SubSeq(s, i, i + Len(sub) - 1) = sub

LowerCase == "abcdefghijklmnopqrstuvwxyz"

UpperCase == "ABCDEFGHIJKLMNOPQRSTUVWXYZ"

UpperChar(c) ==
    IF HasChar(LowerCase, c)
    THEN CharAt(UpperCase, CHOOSE i \in 1..Len(LowerCase) : CharAt(LowerCase, i) = c)
    ELSE c

\* str.upper()
RECURSIVE Upper(_)
Upper(s) ==
    IF s = "" THEN "" ELSE UpperChar(CharAt(s, 1)) \o Upper(SubSeq(s, 2, Len(s)))

\* ''.join(filter(str.isdigit, phone))
RECURSIVE DigitsOnly(_)
DigitsOnly(s) ==
    IF s = "" THEN ""
    ELSE (IF IsDigit(CharAt(s, 1)) THEN CharAt(s, 1) ELSE "")
             \o DigitsOnly(SubSeq(s, 2, Len(s)))

\* f"{n:04d}": decimal, left-padded with zeros to at least four characters
RECURSIVE ZeroPad(_, _)
ZeroPad(s, width) == IF Len(s) >= width THEN s ELSE ZeroPad("0" \o s, width)

Format04d(n) == ZeroPad(ToString(n), 4)

\* CAST(text AS INTEGER): the value of the longest prefix of digits, 0 if none
RECURSIVE CastPrefix(_, _)
CastPrefix(s, acc) ==
    IF s = "" \/ ~IsDigit(CharAt(s, 1)) THEN acc
    ELSE CastPrefix(SubSeq(s, 2, Len(s)), 10 * acc + DigitVal(CharAt(s, 1)))

CastInteger(s) == CastPrefix(s, 0)

\* SUBSTR(user_id, 2)
Substr2(s) == SubSeq(s, 2, Len(s))

\* user_id LIKE "P%" (LIKE is case-insensitive for ASCII)
LikeP(s) == StartsWith(s, "P") \/ StartsWith(s, "p")

SetMax(S) == CHOOSE m \in S : \A x \in S : x <= m

-----------------------------------------------------------------------------
(* werkzeug.security *)

Salts == {"s1"}

generate_password_hash(password, salt) == [salt |-> salt, pw |-> password]

check_password_hash(pwhash, password) ==
    pwhash = generate_password_hash(password, pwhash.salt)

-----------------------------------------------------------------------------
(* database.py *)

\* Mutant of MaxId: SELECT MIN in place of SELECT MAX
MaxId_Min(us) ==
    LET ids == {id \in DOMAIN us : LikeP(id)}
    IN  IF ids = {} THEN {}
        ELSE {CHOOSE m \in {CastInteger(Substr2(id)) : id \in ids} :
                 \A id \in ids : m <= CastInteger(Substr2(id))}

\* SELECT MAX(CAST(SUBSTR(user_id, 2) AS INTEGER)) FROM users WHERE user_id LIKE "P%"
\* MAX over no row is NULL, given here as the empty set
MaxId(us) ==
    LET ids == {id \in DOMAIN us : LikeP(id)}
    IN  IF ids = {} THEN {} ELSE {SetMax({CastInteger(Substr2(id)) : id \in ids})}

\* Mutant of FormatNextId: f"P{next_id}", no padding
FormatNextId_NoPad(max_id) == "P" \o ToString(max_id + 1)

\* next_id = max_id + 1; return f"P{next_id:04d}"
FormatNextId(max_id) ==
    LET next_id == max_id + 1
    IN  "P" \o Format04d(next_id)

get_next_user_id(us) ==
    LET result == MaxId(us)
        max_id == IF result # {} /\ result # {0} THEN SetMax(result) ELSE 0
    IN  FormatNextId(max_id)

\* fetchone() of SELECT * FROM users WHERE user_id = ?: no row or the row
get_user_by_id(us, user_id) ==
    IF user_id \in DOMAIN us THEN {us[user_id]} ELSE {}

\* fetchone() of SELECT * FROM users WHERE email = ?: no row, or the first row
\* in rowid (insertion) order; user_ids are allocated in increasing order.
\* The result is the set of the user_ids of the row returned.
get_user_by_email(us, email) ==
    LET hit == {id \in DOMAIN us : us[id].email = email}
    IN  IF hit = {} THEN {}
        ELSE {CHOOSE id \in hit :
                 \A o \in hit : CastInteger(Substr2(id)) <= CastInteger(Substr2(o))}

Row(password_hash, name, email, phone) ==
    [password_hash |-> password_hash, name |-> name, email |-> email, phone |-> phone]

\* The INSERT of create_user raises sqlite3.IntegrityError when the schema of
\* init_db refuses the row: user_id is the PRIMARY KEY and no other column is
\* UNIQUE (the callers never pass NULL for the NOT NULL columns).
IntegrityError(us, user_id, row) == user_id \in DOMAIN us

\* create_user: INSERT and commit; on IntegrityError the table is unchanged
create_user(us, user_id, row) ==
    IF IntegrityError(us, user_id, row) THEN us
    ELSE [id \in DOMAIN us \cup {user_id} |-> IF id = user_id THEN row ELSE us[id]]

\* Mutant of update_password: the row keeps its hash
update_password_Keep(us, user_id, password_hash) == us

\* Mutant of update_password: the UPDATE has no WHERE
update_password_All(us, user_id, password_hash) ==
    [id \in DOMAIN us |-> [us[id] EXCEPT !.password_hash = password_hash]]

\* update_password: UPDATE users SET password_hash = ? WHERE user_id = ?
update_password(us, user_id, password_hash) ==
    [id \in DOMAIN us |->
        IF id = user_id THEN [us[id] EXCEPT !.password_hash = password_hash]
        ELSE us[id]]

-----------------------------------------------------------------------------
(* flask.session: a dict, given as a function from the keys present *)

Sessions == {"s1"}

EmptyDict == [k \in {} |-> None]

\* Mutant of DictSet: d.setdefault(k, v), which keeps the value of a key present
DictSet_Default(d, k, v) ==
    [x \in DOMAIN d \cup {k} |-> IF x \in DOMAIN d THEN d[x] ELSE v]

DictSet(d, k, v) == [x \in DOMAIN d \cup {k} |-> IF x = k THEN v ELSE d[x]]

\* Mutant of DictPop: every key is taken out
DictPop_Clear(d, k) == [x \in {} |-> TRUE]

\* Mutant of DictPop: the key is never removed
DictPop_Keep(d, k) == d

DictPop(d, k) == [x \in DOMAIN d \ {k} |-> d[x]]

\* d.get(k, default)
DictGet(d, k, default) == IF k \in DOMAIN d THEN d[k] ELSE default

-----------------------------------------------------------------------------
(* email_service.py *)

\* The SMTP settings of the environment: which of SMTP_HOST, SMTP_USERNAME
\* and SMTP_PASSWORD are set, and whether the transport then delivers.
SmtpEnv(host, user, password, delivers) ==
    [host |-> host, user |-> user, password |-> password, delivers |-> delivers]

SmtpEnvs ==
    {SmtpEnv(TRUE, TRUE, TRUE, TRUE), SmtpEnv(TRUE, TRUE, TRUE, FALSE),
     SmtpEnv(FALSE, TRUE, TRUE, TRUE)}

\* Every setting of the environment
AllSmtpEnvs ==
    {SmtpEnv(h, u, pw, d) : h \in BOOLEAN, u \in BOOLEAN, pw \in BOOLEAN, d \in BOOLEAN}

\* send_email_otp returns (sent, send_error)
send_email_otp(env, recipient, otp) ==
    IF ~env.host \/ ~env.user \/ ~env.password
    THEN [sent |-> TRUE, send_error |-> "demo"]
    ELSE IF env.delivers
    THEN [sent |-> TRUE, send_error |-> None]
    ELSE [sent |-> FALSE, send_error |-> "smtp error"]

-----------------------------------------------------------------------------
(* What the requests carry *)

Emails == {"a@x.io", "b@x.io"}

UserIdInputs == {"P0001", "P0002", "P0003"}

\* random.randint(OtpLow, OtpHigh): the two ends of the range stand for it
OtpSample == {OtpLow, OtpHigh}

OtpInputs == {"000000"} \cup {ToString(n) : n \in OtpSample}

\* os.urandom(16).hex(): a password nobody types
RandomPasswords == {"5f2c9a"}

SignupForm(full_name, email, phone, country_code, password, confirm_password) ==
    [full_name |-> full_name, email |-> email, phone |-> phone,
     country_code |-> country_code, password |-> password,
     confirm_password |-> confirm_password]

\* The forms that pass the checks of signup, and each with one field spoilt
GoodSignupForms ==
    {SignupForm("Al", e, "", "+977", "oldpass1", "oldpass1") : e \in Emails}

SignupForms ==
    GoodSignupForms
        \cup {[f EXCEPT !.full_name = " "] : f \in GoodSignupForms}
        \cup {[f EXCEPT !.email = e] :
                 f \in {g \in GoodSignupForms : g.email = "a@x.io"}, e \in {"", "nomail"}}
        \cup {[f EXCEPT !.phone = "12345"] :
                 f \in {g \in GoodSignupForms : g.email = "a@x.io"}}
        \cup {[f EXCEPT !.password = pp[1], !.confirm_password = pp[2]] :
                 f \in {g \in GoodSignupForms : g.email = "a@x.io"},
                 pp \in {<<"", "">>, <<"short", "short">>, <<"oldpass1", "">>,
                         <<"oldpass1", "newpass2">>}}

LinkForm(full_name, phone, country_code) ==
    [full_name |-> full_name, phone |-> phone, country_code |-> country_code]

LinkForms == {LinkForm(n, ph, "+977") : n \in {"", "Al"}, ph \in {"", "12345"}}

SendForm(user_id, email) == [user_id |-> user_id, email |-> email]

SendForms ==
    {SendForm(u, e) : u \in UserIdInputs, e \in Emails}
        \cup {SendForm("", "a@x.io"), SendForm("P0001", ""), SendForm(" P0001", "a@x.io ")}

VerifyForm(user_id, email, otp, new_password, confirm_password) ==
    [user_id |-> user_id, email |-> email, otp |-> otp,
     new_password |-> new_password, confirm_password |-> confirm_password]

\* The forms that pass the checks of verify_otp, and some with one field spoilt
GoodVerifyForms ==
    {VerifyForm(u, e, o, "newpass2", "newpass2") :
        u \in UserIdInputs, e \in Emails, o \in OtpInputs}

VerifyForms ==
    GoodVerifyForms
        \cup {[f EXCEPT !.otp = ""] :
                 f \in {g \in GoodVerifyForms : g.otp = ToString(OtpLow)}}
        \cup {[f EXCEPT !.new_password = pp[1], !.confirm_password = pp[2]] :
                 f \in {g \in GoodVerifyForms : g.otp = ToString(OtpLow)},
                 pp \in {<<"", "">>, <<"short", "short">>, <<"newpass2", "oldpass1">>}}

LoginForm(user_id, password) == [user_id |-> user_id, password |-> password]

\* The user ids as typed: as issued, in lower case, between blanks, unknown
LoginForms ==
    {LoginForm(u, pw) : u \in {"P0001", "P0002"}, pw \in {"oldpass1", "newpass2"}}
        \cup {LoginForm(u, "oldpass1") : u \in {"p0001", " P0001", "P0003", ""}}
        \cup {LoginForm("P0001", "")}

ProfileForm(current_password, new_password, confirm_password) ==
    [current_password |-> current_password, new_password |-> new_password,
     confirm_password |-> confirm_password]

\* The forms of the password change: the current password right, between
\* blanks, wrong or missing, the new password good, short or not repeated
ProfileForms ==
    {ProfileForm("oldpass1", "newpass2", "newpass2"),
     ProfileForm(" oldpass1 ", "newpass2", "newpass2"),
     ProfileForm("newpass2", "oldpass1", "oldpass1"),
     ProfileForm("badpass0", "newpass2", "newpass2"),
     ProfileForm("", "newpass2", "newpass2"),
     ProfileForm("oldpass1", "short", "short"),
     ProfileForm("oldpass1", "newpass2", "oldpass1")}

LoginPage == "http://localhost:5000/login"

SignupPage == "http://localhost:5000/signup"

\* request.referrer of the POST to /auth/google: absent, the login page or the
\* signup page
Referrers == {None, LoginPage, SignupPage}

\* What id_token.verify_oauth2_token makes of the credential: it raises, or
\* returns the payload of a token Google signed for this client.
Tokens ==
    {[valid |-> FALSE, email |-> None, name |-> None, sub |-> None]}
        \cup {[valid |-> TRUE, email |-> e, name |-> "Al", sub |-> "sub"] :
                 e \in Emails \cup {None}}

-----------------------------------------------------------------------------
(* The answer of a handler: where it redirects to ("render": it renders its
   own page), the error and the message of the page, and the OTP the message
   shows *)

Resp(goto, error, message, preview) ==
    [goto |-> goto, error |-> error, message |-> message, preview |-> preview]

ErrNameRequired == "Full name is required."
ErrEmailInvalid == "Please enter a valid email address."
ErrPasswordRequired == "Password is required."
ErrPasswordShort == "Password must be at least 8 characters."
ErrConfirmRequired == "Please confirm your password."
ErrPasswordsDiffer == "Passwords do not match."
ErrPhoneNepal == "Please enter a valid number."
ErrPhoneOther == "Please enter a valid phone number (at least 10 digits)."
ErrEmailExists == "Email already exists. Please use a different email or login."
ErrCreating == "Error creating account: UNIQUE constraint failed: users.user_id"
ErrForgotMissing == "Please enter both email and user ID."
ErrUserNotFound == "User ID not found."
ErrEmailRecords == "Email doesn't match our records."
ErrSendFailed == "Failed to send OTP: smtp error"
ErrAllRequired == "All fields are required."
ErrOtpExpired == "OTP expired. Please request a new one."
ErrOtpInvalid == "Invalid OTP. Please try again."
ErrEmailMismatch == "Email mismatch."
ErrNoChallenge == "Session expired. Please request a new OTP."
ErrKeyError == "500: KeyError"
ErrGoogleFailed == "Google verification failed"
ErrGoogleNoEmail == "Email not found in token"
MsgOtpSent == "OTP sent to your email. Please check your inbox (or spam)."
MsgResetDone == "Password reset successful! Please login with your new password."
ErrLoginRequired == "User ID and password are required."

ErrInvalidLogin == "Invalid user ID or password."

ErrNoAccount == "No account found with this email. Please sign up first."

ErrRegistered == "This email is already registered. Please use the login page."

ErrProfileRequired == "All fields are required"

ErrNewPasswordsDiffer == "New passwords do not match"

ErrPasswordShortLong == "Password must be at least 8 characters long"

ErrCurrentPassword == "Current password is incorrect"

MsgPasswordUpdated == "Password updated successfully!"

MsgGoogleFirst == "Please sign in with Google first."

-----------------------------------------------------------------------------
(* auth.py: the checks of the forms *)

\* The phone check of signup and google_link
PhoneError(phone, country_code) ==
    LET digits_only == DigitsOnly(phone)
    IN  IF country_code = "+977"
        THEN IF Len(digits_only) = 10
                  /\ (StartsWith(digits_only, "97") \/ StartsWith(digits_only, "98"))
             THEN None ELSE ErrPhoneNepal
        ELSE IF Len(digits_only) >= 10 THEN None ELSE ErrPhoneOther

\* signup, "# Validation"
SignupError(full_name, email, phone, country_code, password, confirm) ==
    IF full_name = "" THEN ErrNameRequired
    ELSE IF email = "" \/ ~HasChar(email, "@") THEN ErrEmailInvalid
    ELSE IF password = "" THEN ErrPasswordRequired
    ELSE IF Len(password) < MinPasswordLen THEN ErrPasswordShort
    ELSE IF confirm = "" THEN ErrConfirmRequired
    ELSE IF password # confirm THEN ErrPasswordsDiffer
    ELSE IF phone # "" THEN PhoneError(phone, country_code)
    ELSE None

FullPhone(country_code, phone) ==
    IF phone # "" THEN country_code \o " " \o phone ELSE None

\* google_link, the checks of the POST
LinkError(full_name, phone, country_code) ==
    IF full_name = "" THEN ErrNameRequired
    ELSE IF phone # "" THEN PhoneError(phone, country_code)
    ELSE None

-----------------------------------------------------------------------------
(* auth.py: signup and google_link, each as the function from the state it
   reads and the form posted to the state it leaves and its answer *)

\* Mutant of signup: the table is not asked whether the email has a row
signup_NoEmailCheck(us, form, salt) ==
    LET full_name == Strip(form.full_name)
        email == Strip(form.email)
        phone == Strip(form.phone)
        country_code == Strip(form.country_code)
        password == form.password
        confirm == form.confirm_password
        error == SignupError(full_name, email, phone, country_code, password, confirm)
        user_id == get_next_user_id(us)
        password_hash == generate_password_hash(password, salt)
        full_phone == FullPhone(country_code, phone)
        row == Row(password_hash, full_name, email, full_phone)
    IN  IF error # None
        THEN [users |-> us, user_id |-> None, resp |-> Resp("render", error, None, None)]
        ELSE IF IntegrityError(us, user_id, row)
        THEN [users |-> us, user_id |-> None,
              resp |-> Resp("render", ErrCreating, None, None)]
        ELSE [users |-> create_user(us, user_id, row), user_id |-> user_id,
              resp |-> Resp("signup_success", None, None, None)]

signup(us, form, salt) ==
    LET full_name == Strip(form.full_name)
        email == Strip(form.email)
        phone == Strip(form.phone)
        country_code == Strip(form.country_code)
        password == form.password
        confirm == form.confirm_password
        error == SignupError(full_name, email, phone, country_code, password, confirm)
        existing == get_user_by_email(us, email)
        user_id == get_next_user_id(us)
        password_hash == generate_password_hash(password, salt)
        full_phone == FullPhone(country_code, phone)
        row == Row(password_hash, full_name, email, full_phone)
    IN  IF error # None
        THEN [users |-> us, user_id |-> None, resp |-> Resp("render", error, None, None)]
        ELSE IF existing # {}
        THEN [users |-> us, user_id |-> None,
              resp |-> Resp("render", ErrEmailExists, None, None)]
        ELSE IF IntegrityError(us, user_id, row)
        THEN [users |-> us, user_id |-> None,
              resp |-> Resp("render", ErrCreating, None, None)]
        ELSE [users |-> create_user(us, user_id, row), user_id |-> user_id,
              resp |-> Resp("signup_success", None, None, None)]

\* session['user_id'] = user_id; session['google_linked'] = True and the three
\* pops of google_link
Linked(sess, user_id) ==
    DictPop(DictPop(DictPop(
        DictSet(DictSet(sess, "user_id", user_id), "google_linked", TRUE),
        "google_email"), "google_name"), "google_sub")

\* Mutant of google_link: the session is not asked for a pending email
google_link_NoPendingCheck(us, sess, form, salt, temp_password) ==
    LET email == DictGet(sess, "google_email", None)
        full_name == Strip(form.full_name)
        phone == Strip(form.phone)
        country_code == Strip(form.country_code)
        error == LinkError(full_name, phone, country_code)
        existing_user == get_user_by_email(us, email)
        user_id == get_next_user_id(us)
        password_hash == generate_password_hash(temp_password, salt)
        full_phone == FullPhone(country_code, phone)
        row == Row(password_hash, full_name, email, full_phone)
    IN  IF error # None
        THEN [users |-> us, session |-> sess, resp |-> Resp("render", error, None, None)]
        ELSE IF existing_user # {}
        THEN [users |-> us,
              session |-> Linked(sess, CHOOSE id \in existing_user : TRUE),
              resp |-> Resp("dashboard", None, None, None)]
        ELSE IF IntegrityError(us, user_id, row)
        THEN [users |-> us, session |-> sess,
              resp |-> Resp("render", ErrCreating, None, None)]
        ELSE [users |-> create_user(us, user_id, row),
              session |-> Linked(sess, user_id),
              resp |-> Resp("dashboard", None, None, None)]

google_link(us, sess, form, salt, temp_password) ==
    LET email == DictGet(sess, "google_email", None)
        full_name == Strip(form.full_name)
        phone == Strip(form.phone)
        country_code == Strip(form.country_code)
        error == LinkError(full_name, phone, country_code)
        existing_user == get_user_by_email(us, email)
        user_id == get_next_user_id(us)
        password_hash == generate_password_hash(temp_password, salt)
        full_phone == FullPhone(country_code, phone)
        row == Row(password_hash, full_name, email, full_phone)
    IN  IF email = None \/ email = ""
        THEN [users |-> us, session |-> sess,
              resp |-> Resp("login", None, MsgGoogleFirst, None)]
        ELSE IF error # None
        THEN [users |-> us, session |-> sess, resp |-> Resp("render", error, None, None)]
        ELSE IF existing_user # {}
        THEN [users |-> us,
              session |-> Linked(sess, CHOOSE id \in existing_user : TRUE),
              resp |-> Resp("dashboard", None, None, None)]
        ELSE IF IntegrityError(us, user_id, row)
        THEN [users |-> us, session |-> sess,
              resp |-> Resp("render", ErrCreating, None, None)]
        ELSE [users |-> create_user(us, user_id, row),
              session |-> Linked(sess, user_id),
              resp |-> Resp("dashboard", None, None, None)]

\* Mutant of auth_google: a token that does not verify ends the session
auth_google_FailureClears(us, sess, token) ==
    LET user == get_user_by_email(us, token.email)
    IN  IF ~token.valid
        THEN [session |-> EmptyDict, resp |-> Resp("json400", ErrGoogleFailed, None, None)]
        ELSE IF token.email = None
        THEN [session |-> sess, resp |-> Resp("json400", ErrGoogleNoEmail, None, None)]
        ELSE IF user # {}
        THEN [session |->
                  DictSet(DictSet(EmptyDict, "user_id", CHOOSE id \in user : TRUE),
                          "google_linked", TRUE),
              resp |-> Resp("dashboard", None, None, None)]
        ELSE [session |->
                  DictSet(DictSet(DictSet(sess, "google_email", token.email),
                                  "google_name", token.name),
                          "google_sub", token.sub),
              resp |-> Resp("google_link", None, None, None)]

\* Mutant of auth_google: the table users is not looked at
auth_google_AlwaysPending(us, sess, token) ==
    IF ~token.valid
    THEN [session |-> sess, resp |-> Resp("json400", ErrGoogleFailed, None, None)]
    ELSE IF token.email = None
    THEN [session |-> sess, resp |-> Resp("json400", ErrGoogleNoEmail, None, None)]
    ELSE [session |-> DictSet(DictSet(DictSet(sess, "google_email", token.email),
                                      "google_name", token.name),
                              "google_sub", token.sub),
          resp |-> Resp("google_link", None, None, None)]

\* auth_google, for a request that carries a credential and a server that has
\* GOOGLE_CLIENT_ID
auth_google(us, sess, token) ==
    LET user == get_user_by_email(us, token.email)
    IN  IF ~token.valid
        THEN [session |-> sess, resp |-> Resp("json400", ErrGoogleFailed, None, None)]
        ELSE IF token.email = None
        THEN [session |-> sess, resp |-> Resp("json400", ErrGoogleNoEmail, None, None)]
        ELSE IF user # {}
        THEN [session |->
                  DictSet(DictSet(EmptyDict, "user_id", CHOOSE id \in user : TRUE),
                          "google_linked", TRUE),
              resp |-> Resp("dashboard", None, None, None)]
        ELSE [session |->
                  DictSet(DictSet(DictSet(sess, "google_email", token.email),
                                  "google_name", token.name),
                          "google_sub", token.sub),
              resp |-> Resp("google_link", None, None, None)]

\* Mutant of login: the password is not compared with the hash
login_AnyPassword(us, sess, form) ==
    IF form.user_id = "" \/ form.password = ""
    THEN [session |-> sess, resp |-> Resp("render", ErrLoginRequired, None, None)]
    ELSE IF get_user_by_id(us, Upper(form.user_id)) = {}
    THEN [session |-> sess, resp |-> Resp("render", ErrInvalidLogin, None, None)]
    ELSE [session |-> DictSet(EmptyDict, "user_id", Upper(form.user_id)),
          resp |-> Resp("dashboard", None, None, None)]

\* Mutant of login: a user_id that no row has gets an answer of its own
login_Tells(us, sess, form) ==
    IF form.user_id = "" \/ form.password = ""
    THEN [session |-> sess, resp |-> Resp("render", ErrLoginRequired, None, None)]
    ELSE IF get_user_by_id(us, Upper(form.user_id)) = {}
    THEN [session |-> sess, resp |-> Resp("render", ErrUserNotFound, None, None)]
    ELSE IF ~check_password_hash(us[Upper(form.user_id)].password_hash, form.password)
    THEN [session |-> sess, resp |-> Resp("render", ErrInvalidLogin, None, None)]
    ELSE [session |-> DictSet(EmptyDict, "user_id", Upper(form.user_id)),
          resp |-> Resp("dashboard", None, None, None)]

\* auth.py login, a POST
login(us, sess, form) ==
    LET user_id == Upper(form.user_id)
        password == form.password
        user == get_user_by_id(us, user_id)
    IN  IF user_id = "" \/ password = ""
        THEN [session |-> sess, resp |-> Resp("render", ErrLoginRequired, None, None)]
        ELSE IF user = {}
        THEN [session |-> sess, resp |-> Resp("render", ErrInvalidLogin, None, None)]
        ELSE IF ~check_password_hash(us[user_id].password_hash, password)
        THEN [session |-> sess, resp |-> Resp("render", ErrInvalidLogin, None, None)]
        ELSE [session |-> DictSet(EmptyDict, "user_id", user_id),
              resp |-> Resp("dashboard", None, None, None)]

-----------------------------------------------------------------------------
(* app.py: the routes /login, /auth/google and /google-link.  The routes
   /signup and /forgot of app.py do what signup and forgot_password of the
   modules do. *)

app_login(us, sess, form) ==
    LET user_id == Strip(form.user_id)
        password == form.password
        user == get_user_by_id(us, user_id)
    IN  IF user_id = "" \/ password = ""
        THEN [session |-> sess, resp |-> Resp("render", ErrLoginRequired, None, None)]
        ELSE IF user # {} /\ check_password_hash(us[user_id].password_hash, password)
        THEN [session |-> DictSet(sess, "user_id", user_id),
              resp |-> Resp("dashboard", None, None, None)]
        ELSE [session |-> sess, resp |-> Resp("render", ErrInvalidLogin, None, None)]

\* app.py: dashboard, dataset and prediction
app_protected_page(us, sess) ==
    LET user_id == DictGet(sess, "user_id", None)
    IN  IF user_id = None \/ user_id = ""
        THEN Resp("login", None, None, None)
        ELSE Resp("render", None, None, None)

\* Mutant of is_signup: no request counts as coming from the signup page
is_signup_Never(referrer) == FALSE

\* is_signup = request.referrer and 'signup' in request.referrer
is_signup(referrer) == referrer # None /\ referrer # "" /\ Contains(referrer, "signup")

app_auth_google(us, sess, token, referrer) ==
    LET user == get_user_by_email(us, token.email)
    IN  IF ~token.valid
        THEN [session |-> sess, resp |-> Resp("json400", ErrGoogleFailed, None, None)]
        ELSE IF token.email = None
        THEN [session |-> sess, resp |-> Resp("json400", ErrGoogleNoEmail, None, None)]
        ELSE IF user # {}
        THEN [session |->
                  DictSet(DictSet(sess, "user_id", CHOOSE id \in user : TRUE),
                          "google_linked", TRUE),
              resp |-> Resp("dashboard", None, None, None)]
        ELSE IF is_signup(referrer)
        THEN [session |-> DictSet(DictSet(sess, "google_email", token.email),
                                  "google_sub", token.sub),
              resp |-> Resp("google_link", None, None, None)]
        ELSE [session |-> sess, resp |-> Resp("json400", ErrNoAccount, None, None)]

\* session['user_id'] = user_id; session['google_linked'] = True
app_Linked(sess, user_id) ==
    DictSet(DictSet(sess, "user_id", user_id), "google_linked", TRUE)

\* /google-link, the checks of the POST: the name, the "safety check" on the
\* email, the phone
app_LinkError(us, email, full_name, phone, country_code) ==
    IF full_name = "" THEN ErrNameRequired
    ELSE IF get_user_by_email(us, email) # {} THEN ErrRegistered
    ELSE IF phone # "" THEN PhoneError(phone, country_code)
    ELSE None

app_google_link(us, sess, form, salt, temp_password) ==
    LET email == DictGet(sess, "google_email", None)
        full_name == Strip(form.full_name)
        phone == Strip(form.phone)
        country_code == Strip(form.country_code)
        error == app_LinkError(us, email, full_name, phone, country_code)
        existing == get_user_by_email(us, email)
        user_id == get_next_user_id(us)
        password_hash == generate_password_hash(temp_password, salt)
        full_phone == FullPhone(country_code, phone)
        row == Row(password_hash, full_name, email, full_phone)
    IN  IF email = None \/ email = ""
        THEN [users |-> us, session |-> sess,
              resp |-> Resp("login", None, MsgGoogleFirst, None)]
        ELSE IF error # None
        THEN [users |-> us, session |-> sess, resp |-> Resp("render", error, None, None)]
        ELSE IF existing # {}
        THEN [users |-> us,
              session |-> app_Linked(sess, CHOOSE id \in existing : TRUE),
              resp |-> Resp("dashboard", None, None, None)]
        ELSE IF IntegrityError(us, user_id, row)
        THEN [users |-> us, session |-> sess,
              resp |-> Resp("render", ErrCreating, None, None)]
        ELSE [users |-> create_user(us, user_id, row),
              session |-> app_Linked(sess, user_id),
              resp |-> Resp("dashboard", None, None, None)]

-----------------------------------------------------------------------------
(* password_reset.py: forgot_password, action send_otp and action verify_otp *)

Challenge(otp, email, timestamp) ==
    [otp |-> otp, email |-> email, timestamp |-> timestamp]

\* Mutant of OtpExpired: the challenge expires on reaching the TTL
OtpExpired_AtTtl(t, timestamp) == t - timestamp >= OTP_TTL

\* Mutant of OtpExpired: the age of the challenge is never looked at
OtpExpired_Never(t, timestamp) == FALSE

\* time.time() - stored_otp['timestamp'] > 600
OtpExpired(t, timestamp) == t - timestamp > OTP_TTL

\* Mutant of CheckChallenge: the email of the challenge is not compared
CheckChallenge_NoEmail(stored_otp, t, otp, email) ==
    IF t - stored_otp.timestamp > OTP_TTL THEN ErrOtpExpired
    ELSE IF stored_otp.otp # otp THEN ErrOtpInvalid
    ELSE None

\* Mutant of CheckChallenge: a wrong code is answered with the right one
CheckChallenge_Tells(stored_otp, t, otp, email) ==
    IF t - stored_otp.timestamp > OTP_TTL THEN ErrOtpExpired
    ELSE IF stored_otp.otp # otp THEN "Invalid OTP. Expected " \o stored_otp.otp
    ELSE IF stored_otp.email # email THEN ErrEmailMismatch
    ELSE None

\* Mutant of CheckChallenge: the code and the email are compared before the age
CheckChallenge_ExpiryLast(stored_otp, t, otp, email) ==
    IF stored_otp.otp # otp THEN ErrOtpInvalid
    ELSE IF stored_otp.email # email THEN ErrEmailMismatch
    ELSE IF t - stored_otp.timestamp > OTP_TTL THEN ErrOtpExpired
    ELSE None

\* The if / elif chain on stored_otp: the error it sets, None when it falls
\* through to the update
CheckChallenge(stored_otp, t, otp, email) ==
    IF OtpExpired(t, stored_otp.timestamp) THEN ErrOtpExpired
    ELSE IF stored_otp.otp # otp THEN ErrOtpInvalid
    ELSE IF stored_otp.email # email THEN ErrEmailMismatch
    ELSE None

\* otp = str(random.randint(100000, 999999)), n the number drawn
\* Mutant of OtpString: the code is cut to its last five digits
OtpString_LastFive(n) == ToString(n % 100000)

\* random.randint(a, b): the integers it can return
randint(a, b) == a..b

\* otp = str(random.randint(100000, 999999))
OtpString(n) == ToString(n)

\* Mutant of SentResp: the preview is added whatever send_error is
SentResp_AlwaysPreview(send_error, otp) == Resp("render", None, MsgOtpSent, otp)

\* The message of a send_otp that sent
SentResp(send_error, otp) ==
    Resp("render", None, MsgOtpSent, IF send_error = "demo" THEN otp ELSE None)

\* Mutant of forgot_send_otp: the challenge is stored only once the email went
forgot_send_otp_StoreAfterSend(us, store, t, form, n, env) ==
    LET email == Strip(form.email)
        user_id == Strip(form.user_id)
        user == get_user_by_id(us, user_id)
        otp == OtpString(n)
        mail == send_email_otp(env, email, otp)
    IN  IF email = "" \/ user_id = ""
        THEN [OTP_STORE |-> store, mailed |-> {},
              resp |-> Resp("render", ErrForgotMissing, None, None)]
        ELSE IF user = {}
        THEN [OTP_STORE |-> store, mailed |-> {},
              resp |-> Resp("render", ErrUserNotFound, None, None)]
        ELSE IF us[user_id].email # email
        THEN [OTP_STORE |-> store, mailed |-> {},
              resp |-> Resp("render", ErrEmailRecords, None, None)]
        ELSE IF mail.sent
        THEN [OTP_STORE |-> DictSet(store, user_id, Challenge(otp, email, t)),
              mailed |-> {<<email, otp>>},
              resp |-> SentResp(mail.send_error, otp)]
        ELSE [OTP_STORE |-> store, mailed |-> {<<email, otp>>},
              resp |-> Resp("render", ErrSendFailed, None, None)]

\* Mutant of forgot_send_otp: the email of the user is not compared
forgot_send_otp_AnyEmail(us, store, t, form, n, env) ==
    LET email == Strip(form.email)
        user_id == Strip(form.user_id)
        otp == OtpString(n)
        mail == send_email_otp(env, email, otp)
    IN  IF email = "" \/ user_id = ""
        THEN [OTP_STORE |-> store, mailed |-> {},
              resp |-> Resp("render", ErrForgotMissing, None, None)]
        ELSE IF get_user_by_id(us, user_id) = {}
        THEN [OTP_STORE |-> store, mailed |-> {},
              resp |-> Resp("render", ErrUserNotFound, None, None)]
        ELSE [OTP_STORE |-> DictSet(store, user_id, Challenge(otp, email, t)),
              mailed |-> {<<email, otp>>},
              resp |-> IF mail.sent THEN SentResp(mail.send_error, otp)
                       ELSE Resp("render", ErrSendFailed, None, None)]

\* The send_otp branch: the store it leaves, the calls of send_email_otp it
\* makes (mailed: the recipient and the code of each) and its answer
forgot_send_otp(us, store, t, form, n, env) ==
    LET email == Strip(form.email)
        user_id == Strip(form.user_id)
        user == get_user_by_id(us, user_id)
        otp == OtpString(n)
        mail == send_email_otp(env, email, otp)
    IN  IF email = "" \/ user_id = ""
        THEN [OTP_STORE |-> store, mailed |-> {},
              resp |-> Resp("render", ErrForgotMissing, None, None)]
        ELSE IF user = {}
        THEN [OTP_STORE |-> store, mailed |-> {},
              resp |-> Resp("render", ErrUserNotFound, None, None)]
        ELSE IF us[user_id].email # email
        THEN [OTP_STORE |-> store, mailed |-> {},
              resp |-> Resp("render", ErrEmailRecords, None, None)]
        ELSE [OTP_STORE |-> DictSet(store, user_id, Challenge(otp, email, t)),
              mailed |-> {<<email, otp>>},
              resp |-> IF mail.sent THEN SentResp(mail.send_error, otp)
                       ELSE Resp("render", ErrSendFailed, None, None)]

\* Mutant of forgot_verify_otp: the challenge is looked at before the fields
forgot_verify_otp_ChallengeFirst(us, store, t, form, salt) ==
    LET email == Strip(form.email)
        user_id == Strip(form.user_id)
        otp == Strip(form.otp)
        new_password == form.new_password
        confirm_password == form.confirm_password
        password_hash == generate_password_hash(new_password, salt)
        fields == IF otp = "" \/ new_password = "" \/ confirm_password = ""
                  THEN ErrAllRequired
                  ELSE IF Len(new_password) < MinPasswordLen THEN ErrPasswordShort
                  ELSE IF new_password # confirm_password THEN ErrPasswordsDiffer
                  ELSE None
    IN  IF user_id \in DOMAIN store
        THEN LET stored_otp == store[user_id]
                 error == CheckChallenge(stored_otp, t, otp, email)
             IN  IF error = ErrOtpExpired
                 THEN [users |-> us, OTP_STORE |-> DictPop(store, user_id),
                       resp |-> Resp("render", error, None, None)]
                 ELSE IF error # None
                 THEN [users |-> us, OTP_STORE |-> store,
                       resp |-> Resp("render", error, None, None)]
                 ELSE IF fields # None
                 THEN [users |-> us, OTP_STORE |-> store,
                       resp |-> Resp("render", fields, None, None)]
                 ELSE [users |-> update_password(us, user_id, password_hash),
                       OTP_STORE |-> DictPop(store, user_id),
                       resp |-> Resp("login", None, MsgResetDone, None)]
        ELSE [users |-> us, OTP_STORE |-> store,
              resp |-> Resp("render",
                            IF fields # None THEN fields ELSE ErrNoChallenge, None, None)]

forgot_verify_otp(us, store, t, form, salt) ==
    LET email == Strip(form.email)
        user_id == Strip(form.user_id)
        otp == Strip(form.otp)
        new_password == form.new_password
        confirm_password == form.confirm_password
        password_hash == generate_password_hash(new_password, salt)
    IN  IF otp = "" \/ new_password = "" \/ confirm_password = ""
        THEN [users |-> us, OTP_STORE |-> store,
              resp |-> Resp("render", ErrAllRequired, None, None)]
        ELSE IF Len(new_password) < MinPasswordLen
        THEN [users |-> us, OTP_STORE |-> store,
              resp |-> Resp("render", ErrPasswordShort, None, None)]
        ELSE IF new_password # confirm_password
        THEN [users |-> us, OTP_STORE |-> store,
              resp |-> Resp("render", ErrPasswordsDiffer, None, None)]
        ELSE IF user_id \in DOMAIN store
        THEN LET stored_otp == store[user_id]
                 error == CheckChallenge(stored_otp, t, otp, email)
             IN  IF error = ErrOtpExpired
                 THEN [users |-> us, OTP_STORE |-> DictPop(store, user_id),
                       resp |-> Resp("render", error, None, None)]
                 ELSE IF error # None
                 THEN [users |-> us, OTP_STORE |-> store,
                       resp |-> Resp("render", error, None, None)]
                 ELSE [users |-> update_password(us, user_id, password_hash),
                       OTP_STORE |-> DictPop(store, user_id),
                       resp |-> Resp("login", None, MsgResetDone, None)]
        ELSE [users |-> us, OTP_STORE |-> store,
              resp |-> Resp("render", ErrNoChallenge, None, None)]

-----------------------------------------------------------------------------
(* user_routes.py *)

\* Mutant of protected_page: the page is rendered for any session
protected_page_Open(us, sess) ==
    IF "user_id" \in DOMAIN sess /\ get_user_by_id(us, sess["user_id"]) = {}
    THEN Resp("login", None, None, None)
    ELSE Resp("render", None, None, None)

\* dashboard, profile (GET), dataset, prediction and eda: the page, or the
\* redirect to the login
protected_page(us, sess) ==
    IF "user_id" \notin DOMAIN sess
    THEN Resp("login", None, None, None)
    ELSE IF get_user_by_id(us, sess["user_id"]) = {}
    THEN Resp("login", None, None, None)
    ELSE Resp("render", None, None, None)

ErrUnauthorized == "Unauthorized"

ErrAnalysis == "500: analysis failed"

\* eda_overview and the seven other /api/eda endpoints: 401, the data, or 500
\* with the text of the exception when the analysis raises
eda_api(sess, raises) ==
    IF "user_id" \notin DOMAIN sess
    THEN Resp("json401", ErrUnauthorized, None, None)
    ELSE IF raises THEN Resp("json500", ErrAnalysis, None, None)
    ELSE Resp("json200", None, None, None)

\* Mutant of profile: the current password is not asked to verify
profile_NoCurrentCheck(us, sess, form, salt) ==
    LET user == IF "user_id" \in DOMAIN sess
                THEN get_user_by_id(us, sess["user_id"]) ELSE {}
        current_password == Strip(form.current_password)
        new_password == Strip(form.new_password)
        confirm_password == Strip(form.confirm_password)
        password_hash == generate_password_hash(new_password, salt)
    IN  IF "user_id" \notin DOMAIN sess \/ user = {}
        THEN [users |-> us, resp |-> Resp("login", None, None, None)]
        ELSE IF current_password = "" \/ new_password = "" \/ confirm_password = ""
        THEN [users |-> us, resp |-> Resp("profile", ErrProfileRequired, None, None)]
        ELSE IF new_password # confirm_password
        THEN [users |-> us, resp |-> Resp("profile", ErrNewPasswordsDiffer, None, None)]
        ELSE IF Len(new_password) < MinPasswordLen
        THEN [users |-> us, resp |-> Resp("profile", ErrPasswordShortLong, None, None)]
        ELSE [users |-> update_password(us, sess["user_id"], password_hash),
              resp |-> Resp("profile", None, MsgPasswordUpdated, None)]

\* profile, POST: the password change of the user of the session
profile(us, sess, form, salt) ==
    LET user == IF "user_id" \in DOMAIN sess
                THEN get_user_by_id(us, sess["user_id"]) ELSE {}
        current_password == Strip(form.current_password)
        new_password == Strip(form.new_password)
        confirm_password == Strip(form.confirm_password)
        password_hash == generate_password_hash(new_password, salt)
    IN  IF "user_id" \notin DOMAIN sess \/ user = {}
        THEN [users |-> us, resp |-> Resp("login", None, None, None)]
        ELSE IF current_password = "" \/ new_password = "" \/ confirm_password = ""
        THEN [users |-> us, resp |-> Resp("profile", ErrProfileRequired, None, None)]
        ELSE IF new_password # confirm_password
        THEN [users |-> us, resp |-> Resp("profile", ErrNewPasswordsDiffer, None, None)]
        ELSE IF Len(new_password) < MinPasswordLen
        THEN [users |-> us, resp |-> Resp("profile", ErrPasswordShortLong, None, None)]
        ELSE IF ~check_password_hash((CHOOSE row \in user : TRUE).password_hash,
                                     current_password)
        THEN [users |-> us, resp |-> Resp("profile", ErrCurrentPassword, None, None)]
        ELSE [users |-> update_password(us, sess["user_id"], password_hash),
              resp |-> Resp("profile", None, MsgPasswordUpdated, None)]

-----------------------------------------------------------------------------
(* The server with one request handled at a time *)

Idle == [pc |-> "idle"]

IdleReq == [r \in 1..NumReqs |-> Idle]

Init ==
    /\ users = EmptyDict
    /\ OTP_STORE = EmptyDict
    /\ session = [s \in Sessions |-> EmptyDict]
    /\ now = 0
    /\ req = IdleReq
    /\ users0 = EmptyDict
    /\ impl \in Impls
    /\ alloc_max = 0
    /\ allocated = None
    /\ boot = 0

Signup(form, salt) ==
    LET r == signup(users, form, salt)
    IN  /\ Cardinality(DOMAIN r.users) <= MaxUsers
        /\ users' = r.users
        /\ UNCHANGED <<OTP_STORE, session, now, req, users0, impl, alloc_max, allocated, boot>>

\* The handler that serves a route, in the copy of the handlers that runs
serve_login(us, sess, form) ==
    IF impl = "app" THEN app_login(us, sess, form) ELSE login(us, sess, form)

serve_auth_google(us, sess, token, referrer) ==
    IF impl = "app" THEN app_auth_google(us, sess, token, referrer)
    ELSE auth_google(us, sess, token)

serve_google_link(us, sess, form, salt, temp_password) ==
    IF impl = "app" THEN app_google_link(us, sess, form, salt, temp_password)
    ELSE google_link(us, sess, form, salt, temp_password)

serve_protected_page(us, sess) ==
    IF impl = "app" THEN app_protected_page(us, sess) ELSE protected_page(us, sess)

Login(s, form) ==
    LET r == serve_login(users, session[s], form)
    IN  /\ session' = [session EXCEPT ![s] = r.session]
        /\ UNCHANGED <<users, OTP_STORE, now, req, users0, impl, alloc_max, allocated, boot>>

\* Mutant of Logout: session.pop('user_id', None) in place of session.clear()
Logout_PopsUserId(s) ==
    /\ session' = [session EXCEPT ![s] = DictPop(session[s], "user_id")]
    /\ UNCHANGED <<users, OTP_STORE, now, req, users0, impl, alloc_max, allocated, boot>>

\* app.py logout: session.clear()
Logout(s) ==
    /\ session' = [session EXCEPT ![s] = EmptyDict]
    /\ UNCHANGED <<users, OTP_STORE, now, req, users0, impl, alloc_max, allocated, boot>>

AuthGoogle(s, token, referrer) ==
    LET r == serve_auth_google(users, session[s], token, referrer)
    IN  /\ session' = [session EXCEPT ![s] = r.session]
        /\ UNCHANGED <<users, OTP_STORE, now, req, users0, impl, alloc_max, allocated, boot>>

GoogleLink(s, form, salt, temp_password) ==
    LET r == serve_google_link(users, session[s], form, salt, temp_password)
    IN  /\ Cardinality(DOMAIN r.users) <= MaxUsers
        /\ users' = r.users
        /\ session' = [session EXCEPT ![s] = r.session]
        /\ UNCHANGED <<OTP_STORE, now, req, users0, impl, alloc_max, allocated, boot>>

ForgotSendOtp(form, n, env) ==
    LET r == forgot_send_otp(users, OTP_STORE, now, form, n, env)
    IN  /\ OTP_STORE' = r.OTP_STORE
        /\ UNCHANGED <<users, session, now, req, users0, impl, alloc_max, allocated, boot>>

\* Mutant of ForgotVerifyOtp: a password reset signs the user in
ForgotVerifyOtp_SignsIn(form, salt) ==
    LET r == forgot_verify_otp(users, OTP_STORE, now, form, salt)
    IN  /\ users' = r.users
        /\ OTP_STORE' = r.OTP_STORE
        /\ session' = [s \in Sessions |->
                          IF r.resp.message = MsgResetDone
                          THEN DictSet(session[s], "user_id", Strip(form.user_id))
                          ELSE session[s]]
        /\ UNCHANGED <<now, req, users0, impl, alloc_max, allocated, boot>>

ForgotVerifyOtp(form, salt) ==
    LET r == forgot_verify_otp(users, OTP_STORE, now, form, salt)
    IN  /\ users' = r.users
        /\ OTP_STORE' = r.OTP_STORE
        /\ UNCHANGED <<session, now, req, users0, impl, alloc_max, allocated, boot>>

\* POST /profile; app.py has no such route
Profile(s, form, salt) ==
    LET r == profile(users, session[s], form, salt)
    IN  /\ impl = "modules"
        /\ users' = r.users
        /\ UNCHANGED <<OTP_STORE, session, now, req, users0, impl, alloc_max, allocated, boot>>

\* Time passes: by a second, or by the lifetime of a challenge
Tick(d) ==
    /\ now + d <= MaxTime
    /\ d = 1 => now % OTP_TTL < MaxDrift
    /\ now' = now + d
    /\ UNCHANGED <<users, OTP_STORE, session, req, users0, impl, alloc_max, allocated, boot>>

Next ==
    \/ \E form \in SignupForms, salt \in Salts : Signup(form, salt)
    \/ \E s \in Sessions, form \in LoginForms : Login(s, form)
    \/ \E s \in Sessions, token \in Tokens, referrer \in Referrers :
          AuthGoogle(s, token, referrer)
    \/ \E s \in Sessions, form \in LinkForms, salt \in Salts,
          temp_password \in RandomPasswords : GoogleLink(s, form, salt, temp_password)
    \/ \E s \in Sessions : Logout(s)
    \/ \E form \in SendForms, n \in OtpSample, env \in SmtpEnvs :
          ForgotSendOtp(form, n, env)
    \/ \E form \in VerifyForms, salt \in Salts : ForgotVerifyOtp(form, salt)
    \/ \E s \in Sessions, form \in ProfileForms, salt \in Salts : Profile(s, form, salt)
    \/ \E d \in {1, OTP_TTL} : Tick(d)

Spec == Init /\ [][Next]_vars

\* The recovery flow alone: the requests that read or write OTP_STORE, the
\* signups that make the users, and the clock.  No step touches a session.
NextRecovery ==
    \/ \E form \in SignupForms, salt \in Salts : Signup(form, salt)
    \/ \E form \in SendForms, n \in OtpSample, env \in SmtpEnvs :
          ForgotSendOtp(form, n, env)
    \/ \E form \in VerifyForms, salt \in Salts : ForgotVerifyOtp(form, salt)
    \/ \E d \in {1, OTP_TTL} : Tick(d)

SpecRecovery == Init /\ [][NextRecovery]_vars

\* Mutant of Restart: the challenges outlive the process
Restart_KeepsStore ==
    /\ boot < MaxBoots
    /\ boot' = boot + 1
    /\ UNCHANGED <<users, OTP_STORE, session, now, req, users0, impl, alloc_max, allocated>>

\* The server process ends and a new one starts: the module is imported anew
\* and OTP_STORE = {} runs again; the table users is in the file
\* healthoracle.db, the session in the cookie of the browser, signed with the
\* secret key of the source.
Restart ==
    /\ boot < MaxBoots
    /\ boot' = boot + 1
    /\ OTP_STORE' = EmptyDict
    /\ UNCHANGED <<users, session, now, req, users0, impl, alloc_max, allocated>>

\* The recovery flow on a server that is restarted
NextRestart ==
    \/ \E form \in SignupForms, salt \in Salts : Signup(form, salt)
    \/ \E form \in SendForms, n \in OtpSample, env \in SmtpEnvs :
          ForgotSendOtp(form, n, env)
    \/ \E form \in VerifyForms, salt \in Salts : ForgotVerifyOtp(form, salt)
    \/ \E d \in {1, OTP_TTL} : Tick(d)
    \/ Restart

SpecRestart == Init /\ [][NextRestart]_vars

\* The password change and what it needs: the users and the sessions that
\* the sign-in flows make
NextProfile ==
    \/ \E form \in SignupForms, salt \in Salts : Signup(form, salt)
    \/ \E s \in Sessions, form \in LoginForms : Login(s, form)
    \/ \E s \in Sessions, token \in Tokens, referrer \in Referrers :
          AuthGoogle(s, token, referrer)
    \/ \E s \in Sessions, form \in LinkForms, salt \in Salts,
          temp_password \in RandomPasswords : GoogleLink(s, form, salt, temp_password)
    \/ \E s \in Sessions : Logout(s)
    \/ \E s \in Sessions, form \in ProfileForms, salt \in Salts : Profile(s, form, salt)

SpecProfile == Init /\ [][NextProfile]_vars

\* The sign-in flows alone: the requests that read or write a session, and
\* the signups that make the users.  No step touches OTP_STORE or the clock.
NextAuth ==
    \/ \E form \in SignupForms, salt \in Salts : Signup(form, salt)
    \/ \E s \in Sessions, form \in LoginForms : Login(s, form)
    \/ \E s \in Sessions, token \in Tokens, referrer \in Referrers :
          AuthGoogle(s, token, referrer)
    \/ \E s \in Sessions, form \in LinkForms, salt \in Salts,
          temp_password \in RandomPasswords : GoogleLink(s, form, salt, temp_password)
    \/ \E s \in Sessions : Logout(s)

SpecAuth == Init /\ [][NextAuth]_vars

\* The allocator alone, over a long run of creations.  The table users is
\* given by what get_next_user_id reads from it, the MAX of the suffixes:
\* every creation inserts the user_id allocated and no row is deleted, so the
\* MAX after n creations is n.  A run starts on a new database or on the
\* database file an earlier run of the server left.
AllocStarts == {0, 9990}

InitAlloc ==
    /\ users = EmptyDict
    /\ OTP_STORE = EmptyDict
    /\ session = [s \in Sessions |-> EmptyDict]
    /\ now = 0
    /\ req = IdleReq
    /\ users0 = EmptyDict
    /\ impl \in Impls
    /\ alloc_max \in AllocStarts
    /\ allocated = None
    /\ boot = 0

\* get_next_user_id and the INSERT of the user_id it returned
Allocate ==
    /\ alloc_max < MaxAlloc
    /\ allocated' = FormatNextId(alloc_max)
    /\ alloc_max' = alloc_max + 1
    /\ UNCHANGED <<users, OTP_STORE, session, now, req, users0, impl, boot>>

NextAlloc == Allocate

SpecAlloc == InitAlloc /\ [][NextAlloc]_vars

-----------------------------------------------------------------------------
(* The threaded server: a request is a thread, and each of its accesses to
   the table users, to OTP_STORE and to the clock is a step of its own.  The
   session is the cookie of the browser: a request works on the copy it
   arrived with and its answer replaces the cookie.                        *)

Pending == Resp("pending", None, None, None)

Request(kind, pc, s, form, salt, sess) ==
    [kind |-> kind, pc |-> pc, s |-> s, form |-> form, salt |-> salt,
     sess |-> sess, temp_password |-> None, n |-> 0, env |-> SmtpEnv(TRUE, TRUE, TRUE, TRUE),
     user_id |-> None, stored_otp |-> {}, attempts |-> 0, resp |-> Pending]

Done(q, resp) == [q EXCEPT !.pc = "done", !.resp = resp]

\* The requests arrive in the order of their numbers
CanStart(r) == req[r].pc = "idle" /\ \A o \in 1..(r - 1) : req[o].pc # "idle"

At(r, pc) == req[r].pc = pc

\* The users found by the first request are those the history keeps
Arrive(r) == users0' = IF r = 1 THEN users ELSE users0

ConcSignupForms ==
    GoodSignupForms \cup {SignupForm("", "a@x.io", "", "+977", "oldpass1", "oldpass1")}

ConcLinkForms == {LinkForm("Al", "", "+977"), LinkForm("", "", "+977")}

ConcSendForms ==
    {SendForm("P0001", "a@x.io"), SendForm("P0001", "b@x.io"), SendForm("", "a@x.io")}

ConcVerifyForms ==
    {VerifyForm("P0001", e, OtpString(n), "newpass2", "newpass2") :
        e \in Emails, n \in OtpSample}
        \cup {VerifyForm("P0001", "a@x.io", OtpString(OtpLow), "short", "short")}

\* The email the new row gets: the form's for signup, the session's for google_link
NewEmail(q) ==
    IF q.kind = "signup" THEN Strip(q.form.email)
    ELSE DictGet(q.sess, "google_email", None)

NewRow(q) ==
    Row(generate_password_hash(
            IF q.kind = "signup" THEN q.form.password ELSE q.temp_password, q.salt),
        Strip(q.form.full_name), NewEmail(q),
        FullPhone(Strip(q.form.country_code), Strip(q.form.phone)))

\* signup up to its first query
StartSignup(r, form, salt) ==
    LET error == SignupError(Strip(form.full_name), Strip(form.email),
                             Strip(form.phone), Strip(form.country_code),
                             form.password, form.confirm_password)
        q == Request("signup", "check_email", None, form, salt, EmptyDict)
    IN  /\ CanStart(r)
        /\ req' = [req EXCEPT ![r] =
                      IF error # None THEN Done(q, Resp("render", error, None, None))
                      ELSE q]
        /\ Arrive(r)
        /\ UNCHANGED <<users, OTP_STORE, session, now, impl, alloc_max, allocated, boot>>

\* What a google_link that links leaves in the session, in the copy that runs
serve_Linked(sess, user_id) ==
    IF impl = "app" THEN app_Linked(sess, user_id) ELSE Linked(sess, user_id)

\* google_link up to its first query: in app.py the "safety check" on the
\* email comes after the check of the name and before that of the phone
StartLink(r, s, form, salt, temp_password) ==
    LET sess == session[s]
        email == DictGet(sess, "google_email", None)
        error == LinkError(Strip(form.full_name), Strip(form.phone),
                           Strip(form.country_code))
        q == [Request("google_link", "check_email", s, form, salt, sess)
                 EXCEPT !.temp_password = temp_password]
    IN  /\ CanStart(r)
        /\ req' = [req EXCEPT ![r] =
                      IF email = None \/ email = ""
                      THEN Done(q, Resp("login", None, MsgGoogleFirst, None))
                      ELSE IF impl = "app" /\ Strip(form.full_name) # ""
                      THEN [q EXCEPT !.pc = "safety_check"]
                      ELSE IF error # None
                      THEN Done(q, Resp("render", error, None, None))
                      ELSE q]
        /\ Arrive(r)
        /\ UNCHANGED <<users, OTP_STORE, session, now, impl, alloc_max, allocated, boot>>

\* /google-link of app.py: "Check if email already exists (safety check)",
\* then the check of the phone
LinkSafetyCheck(r) ==
    LET q == req[r]
        existing == get_user_by_email(users, NewEmail(q))
        error == LinkError(Strip(q.form.full_name), Strip(q.form.phone),
                           Strip(q.form.country_code))
    IN  /\ At(r, "safety_check")
        /\ req' = [req EXCEPT ![r] =
                      IF existing # {}
                      THEN Done(q, Resp("render", ErrRegistered, None, None))
                      ELSE IF error # None
                      THEN Done(q, Resp("render", error, None, None))
                      ELSE [q EXCEPT !.pc = "check_email"]]
        /\ UNCHANGED <<users, OTP_STORE, session, now, users0, impl, alloc_max, allocated, boot>>

\* get_user_by_email(email) of signup and of google_link
CheckEmail(r) ==
    LET q == req[r]
        existing == get_user_by_email(users, NewEmail(q))
    IN  /\ At(r, "check_email")
        /\ IF existing = {}
           THEN /\ req' = [req EXCEPT ![r].pc = "alloc"]
                /\ UNCHANGED session
           ELSE IF q.kind = "signup"
           THEN /\ req' = [req EXCEPT ![r] =
                              Done(q, Resp("render", ErrEmailExists, None, None))]
                /\ UNCHANGED session
           ELSE /\ req' = [req EXCEPT ![r] = Done(q, Resp("dashboard", None, None, None))]
                /\ session' = [session EXCEPT ![q.s] =
                                  serve_Linked(q.sess, CHOOSE id \in existing : TRUE)]
        /\ UNCHANGED <<users, OTP_STORE, now, users0, impl, alloc_max, allocated, boot>>

\* user_id = get_next_user_id()
AllocId(r) ==
    /\ At(r, "alloc")
    /\ req' = [req EXCEPT ![r].pc = "insert", ![r].user_id = get_next_user_id(users)]
    /\ UNCHANGED <<users, OTP_STORE, session, now, users0, impl, alloc_max, allocated, boot>>

\* create_user(...) in its try, and what follows it
InsertUser(r) ==
    LET q == [req[r] EXCEPT !.attempts = @ + 1]
        row == NewRow(q)
    IN  /\ At(r, "insert")
        /\ IF IntegrityError(users, q.user_id, row)
           THEN /\ req' = [req EXCEPT ![r] =
                              Done(q, Resp("render", ErrCreating, None, None))]
                /\ UNCHANGED <<users, session>>
           ELSE /\ Cardinality(DOMAIN users) < MaxUsers
                /\ users' = create_user(users, q.user_id, row)
                /\ IF q.kind = "signup"
                   THEN /\ req' = [req EXCEPT ![r] =
                                      Done(q, Resp("signup_success", None, None, None))]
                        /\ UNCHANGED session
                   ELSE /\ req' = [req EXCEPT ![r] =
                                      Done(q, Resp("dashboard", None, None, None))]
                        /\ session' = [session EXCEPT ![q.s] =
                                          serve_Linked(q.sess, q.user_id)]
        /\ UNCHANGED <<OTP_STORE, now, users0, impl, alloc_max, allocated, boot>>

\* forgot_password, action send_otp, up to its query
StartSend(r, form, n, env) ==
    LET q == [Request("send_otp", "send_lookup", None, form, None, EmptyDict)
                 EXCEPT !.n = n, !.env = env]
    IN  /\ CanStart(r)
        /\ req' = [req EXCEPT ![r] =
                      IF Strip(form.email) = "" \/ Strip(form.user_id) = ""
                      THEN Done(q, Resp("render", ErrForgotMissing, None, None))
                      ELSE q]
        /\ Arrive(r)
        /\ UNCHANGED <<users, OTP_STORE, session, now, impl, alloc_max, allocated, boot>>

\* user = get_user_by_id(user_id) and the two checks of it
SendLookup(r) ==
    LET q == req[r]
        user_id == Strip(q.form.user_id)
        user == get_user_by_id(users, user_id)
    IN  /\ At(r, "send_lookup")
        /\ req' = [req EXCEPT ![r] =
                      IF user = {}
                      THEN Done(q, Resp("render", ErrUserNotFound, None, None))
                      ELSE IF users[user_id].email # Strip(q.form.email)
                      THEN Done(q, Resp("render", ErrEmailRecords, None, None))
                      ELSE [q EXCEPT !.pc = "send_store"]]
        /\ UNCHANGED <<users, OTP_STORE, session, now, users0, impl, alloc_max, allocated, boot>>

\* OTP_STORE[user_id] = {...} and send_email_otp(email, otp)
SendStore(r) ==
    LET q == req[r]
        email == Strip(q.form.email)
        otp == OtpString(q.n)
        mail == send_email_otp(q.env, email, otp)
    IN  /\ At(r, "send_store")
        /\ OTP_STORE' = DictSet(OTP_STORE, Strip(q.form.user_id), Challenge(otp, email, now))
        /\ req' = [req EXCEPT ![r] =
                      Done(q, IF mail.sent THEN SentResp(mail.send_error, otp)
                              ELSE Resp("render", ErrSendFailed, None, None))]
        /\ UNCHANGED <<users, session, now, users0, impl, alloc_max, allocated, boot>>

\* forgot_password, action verify_otp, up to "elif user_id in OTP_STORE"
StartVerify(r, form, salt) ==
    LET q == Request("verify_otp", "verify_in", None, form, salt, EmptyDict)
    IN  /\ CanStart(r)
        /\ req' = [req EXCEPT ![r] =
                      IF Strip(form.otp) = "" \/ form.new_password = ""
                            \/ form.confirm_password = ""
                      THEN Done(q, Resp("render", ErrAllRequired, None, None))
                      ELSE IF Len(form.new_password) < MinPasswordLen
                      THEN Done(q, Resp("render", ErrPasswordShort, None, None))
                      ELSE IF form.new_password # form.confirm_password
                      THEN Done(q, Resp("render", ErrPasswordsDiffer, None, None))
                      ELSE q]
        /\ Arrive(r)
        /\ UNCHANGED <<users, OTP_STORE, session, now, impl, alloc_max, allocated, boot>>

\* elif user_id in OTP_STORE
VerifyIn(r) ==
    LET q == req[r]
    IN  /\ At(r, "verify_in")
        /\ req' = [req EXCEPT ![r] =
                      IF Strip(q.form.user_id) \in DOMAIN OTP_STORE
                      THEN [q EXCEPT !.pc = "verify_load"]
                      ELSE Done(q, Resp("render", ErrNoChallenge, None, None))]
        /\ UNCHANGED <<users, OTP_STORE, session, now, users0, impl, alloc_max, allocated, boot>>

\* stored_otp = OTP_STORE[user_id]: the dict of the challenge, or KeyError
VerifyLoad(r) ==
    LET q == req[r]
        user_id == Strip(q.form.user_id)
    IN  /\ At(r, "verify_load")
        /\ req' = [req EXCEPT ![r] =
                      IF user_id \in DOMAIN OTP_STORE
                      THEN [q EXCEPT !.pc = "verify_check",
                                     !.stored_otp = {OTP_STORE[user_id]}]
                      ELSE Done(q, Resp("500", ErrKeyError, None, None))]
        /\ UNCHANGED <<users, OTP_STORE, session, now, users0, impl, alloc_max, allocated, boot>>

\* The three checks of stored_otp
VerifyCheck(r) ==
    LET q == req[r]
        stored_otp == CHOOSE c \in q.stored_otp : TRUE
        error == CheckChallenge(stored_otp, now, Strip(q.form.otp), Strip(q.form.email))
    IN  /\ At(r, "verify_check")
        /\ req' = [req EXCEPT ![r] =
                      IF error = ErrOtpExpired
                      THEN [q EXCEPT !.pc = "verify_del",
                                     !.resp = Resp("render", error, None, None)]
                      ELSE IF error # None
                      THEN Done(q, Resp("render", error, None, None))
                      ELSE [q EXCEPT !.pc = "verify_update"]]
        /\ UNCHANGED <<users, OTP_STORE, session, now, users0, impl, alloc_max, allocated, boot>>

\* update_password(user_id, password_hash)
VerifyUpdate(r) ==
    LET q == req[r]
    IN  /\ At(r, "verify_update")
        /\ users' = update_password(users, Strip(q.form.user_id),
                                    generate_password_hash(q.form.new_password, q.salt))
        /\ req' = [req EXCEPT ![r] =
                      [q EXCEPT !.pc = "verify_del",
                                !.resp = Resp("login", None, MsgResetDone, None)]]
        /\ UNCHANGED <<OTP_STORE, session, now, users0, impl, alloc_max, allocated, boot>>

\* del OTP_STORE[user_id], of the expired challenge or of the one consumed:
\* KeyError when the key is gone
VerifyDel(r) ==
    LET q == req[r]
        user_id == Strip(q.form.user_id)
    IN  /\ At(r, "verify_del")
        /\ IF user_id \in DOMAIN OTP_STORE
           THEN /\ OTP_STORE' = DictPop(OTP_STORE, user_id)
                /\ req' = [req EXCEPT ![r] = Done(q, q.resp)]
           ELSE /\ req' = [req EXCEPT ![r] = Done(q, Resp("500", ErrKeyError, None, None))]
                /\ UNCHANGED OTP_STORE
        /\ UNCHANGED <<users, session, now, users0, impl, alloc_max, allocated, boot>>

\* The states the requests arrive in: the empty database, or one user with a
\* live challenge; the browser has signed in with Google for an email no user
\* has (Spec reaches each of them).
SeedUsers ==
    DictSet(EmptyDict, "P0001",
            Row(generate_password_hash("oldpass1", "s1"), "Al", "a@x.io", None))

SeedStore == DictSet(EmptyDict, "P0001", Challenge(OtpString(OtpLow), "a@x.io", 0))

SeedSession ==
    DictSet(DictSet(DictSet(EmptyDict, "google_email", "b@x.io"), "google_name", "Al"),
            "google_sub", "sub")

InitConc ==
    /\ \/ users = EmptyDict /\ OTP_STORE = EmptyDict
       \/ users = SeedUsers /\ OTP_STORE = SeedStore
    /\ session = [s \in Sessions |-> SeedSession]
    /\ now \in {0, OTP_TTL + 1}
    /\ req = IdleReq
    /\ users0 = users
    /\ impl \in Impls
    /\ alloc_max = 0
    /\ allocated = None
    /\ boot = 0

NextConc ==
    \/ \E r \in 1..NumReqs :
          \/ \E form \in ConcSignupForms, salt \in Salts : StartSignup(r, form, salt)
          \/ \E s \in Sessions, form \in ConcLinkForms, salt \in Salts,
                temp_password \in RandomPasswords :
                StartLink(r, s, form, salt, temp_password)
          \/ LinkSafetyCheck(r)
          \/ CheckEmail(r)
          \/ AllocId(r)
          \/ InsertUser(r)
          \/ \E form \in ConcSendForms, n \in OtpSample, env \in SmtpEnvs :
                StartSend(r, form, n, env)
          \/ SendLookup(r)
          \/ SendStore(r)
          \/ \E form \in ConcVerifyForms, salt \in Salts : StartVerify(r, form, salt)
          \/ VerifyIn(r)
          \/ VerifyLoad(r)
          \/ VerifyCheck(r)
          \/ VerifyUpdate(r)
          \/ VerifyDel(r)

SpecConc == InitConc /\ [][NextConc]_vars

-----------------------------------------------------------------------------
(* The kinds of answer the handlers give *)

Created(resp) == resp.goto \in {"signup_success", "dashboard"} /\ resp.error = None

ConflictError(resp) == resp.error \in {ErrEmailExists, ErrRegistered, ErrCreating}

Success(resp) == resp.goto = "login" /\ resp.message = MsgResetDone

ExpiredError(resp) == resp.error = ErrOtpExpired

MismatchError(resp) == resp.error \in {ErrOtpInvalid, ErrEmailMismatch}

NotFoundError(resp) == resp.error = ErrNoChallenge

Unhandled(resp) == resp.goto = "500"

Finished(r, kind) == req[r].pc = "done" /\ req[r].kind = kind

-----------------------------------------------------------------------------
(* Claims on the threaded server *)

\* C1: N concurrent signups with pairwise distinct emails against an empty
\* store all create a user, and the user_ids are exactly P0001 .. P000N,
\* whatever the interleaving.
C1_ConcurrentSignupsGetSequentialIds ==
    (/\ users0 = EmptyDict
     /\ \A r \in 1..NumReqs :
           Finished(r, "signup") /\ req[r].form \in GoodSignupForms
     /\ \A r1, r2 \in 1..NumReqs :
           r1 # r2 => req[r1].form.email # req[r2].form.email)
        => /\ \A r \in 1..NumReqs : Created(req[r].resp)
           /\ DOMAIN users = {"P" \o Format04d(i) : i \in 1..NumReqs}

\* C2: under any interleaving of signup and google_link requests no two rows
\* of users have the same email.
C2_EmailsUnique ==
    \A id1, id2 \in DOMAIN users :
        id1 # id2 => users[id1].email # users[id2].email

\* C3: create_user with an email that a row already has fails with
\* ConflictError and leaves the rows as they were.
C3_CreateUserRefusesKnownEmail ==
    [][\A r \in 1..NumReqs :
          (/\ req[r].pc = "insert"
           /\ get_user_by_email(users, NewEmail(req[r])) # {}
           /\ InsertUser(r))
              => (users' = users /\ ConflictError(req'[r].resp))]_vars

\* C4: a signup or google_link whose insert fails because the user_id was
\* taken allocates again and retries once, so it ends with ConflictError only
\* after a second failed insert.
C4_InsertRetriedOnce ==
    \A r \in 1..NumReqs :
        (/\ req[r].pc = "done"
         /\ req[r].kind \in {"signup", "google_link"}
         /\ req[r].resp.error = ErrCreating)
            => req[r].attempts = 2

\* C6: of two concurrent verify calls with the code and email of the one live
\* challenge at most one returns Success, and neither ends in an unhandled
\* error.
C6_ConcurrentVerifyUsesCodeOnce ==
    \A r1, r2 \in 1..NumReqs :
        (/\ r1 # r2
         /\ \A r \in 1..NumReqs : req[r].pc # "idle" => req[r].kind = "verify_otp"
         /\ req[r1].pc = "done" /\ req[r2].pc = "done"
         /\ users0 = SeedUsers
         /\ \A r \in {r1, r2} :
               /\ Strip(req[r].form.user_id) = "P0001"
               /\ Strip(req[r].form.otp) = SeedStore["P0001"].otp
               /\ Strip(req[r].form.email) = SeedStore["P0001"].email
               /\ req[r].form.new_password = "newpass2"
               /\ req[r].form.confirm_password = "newpass2")
            => /\ ~(Success(req[r1].resp) /\ Success(req[r2].resp))
               /\ ~Unhandled(req[r1].resp) /\ ~Unhandled(req[r2].resp)

-----------------------------------------------------------------------------
(* Claims on the recovery flow, one request at a time.  A claim on what a
   handler answers is stated on the handler applied to the state reached. *)

NewPassword == "newpass2"

\* The verify_otp form with the code and email of the challenge of user_id
RightForm(store, user_id) ==
    VerifyForm(user_id, store[user_id].email, store[user_id].otp, NewPassword, NewPassword)

Age(store, user_id) == now - store[user_id].timestamp

\* C5: after a send_otp that sent, an immediate verify_otp with the code
\* issued succeeds, the password hash of the user verifies the new password
\* and the challenge is deleted; a second verify_otp with the same code fails
\* for want of a challenge and changes nothing.
C5_IssueThenVerifyConsumes ==
    \A form \in SendForms, n \in OtpSample, env \in SmtpEnvs, salt \in Salts :
        LET issue == forgot_send_otp(users, OTP_STORE, now, form, n, env)
            user_id == Strip(form.user_id)
            vform == VerifyForm(form.user_id, form.email, OtpString(n),
                                NewPassword, NewPassword)
            first == forgot_verify_otp(users, issue.OTP_STORE, now, vform, salt)
            second == forgot_verify_otp(first.users, first.OTP_STORE, now, vform, salt)
        IN  issue.resp.message = MsgOtpSent
                => /\ Success(first.resp)
                   /\ check_password_hash(first.users[user_id].password_hash, NewPassword)
                   /\ user_id \notin DOMAIN first.OTP_STORE
                   /\ NotFoundError(second.resp)
                   /\ second.users = first.users
                   /\ second.OTP_STORE = first.OTP_STORE

\* A password was reset at the time its challenge was issued
C5_Witness ==
    /\ now = 0
    /\ \E u \in DOMAIN users :
          /\ check_password_hash(users[u].password_hash, NewPassword)
          /\ u \notin DOMAIN OTP_STORE

\* C7: a verify_otp with the right code and email exactly OTP_TTL seconds
\* after the issue succeeds; any later one fails as expired, deletes the
\* challenge and leaves the password hashes as they were.
C7_TtlBoundaryInclusive ==
    \A u \in DOMAIN OTP_STORE, salt \in Salts :
        LET v == forgot_verify_otp(users, OTP_STORE, now, RightForm(OTP_STORE, u), salt)
        IN  /\ Age(OTP_STORE, u) = OTP_TTL => Success(v.resp)
            /\ Age(OTP_STORE, u) > OTP_TTL
                  => /\ ExpiredError(v.resp)
                     /\ u \notin DOMAIN v.OTP_STORE
                     /\ v.users = users

\* One challenge is exactly OTP_TTL seconds old and another a second older
C7_Witness ==
    \E u1, u2 \in DOMAIN OTP_STORE :
        Age(OTP_STORE, u1) = OTP_TTL /\ Age(OTP_STORE, u2) = OTP_TTL + 1

\* C8: within the TTL a verify_otp with a wrong code or another email fails
\* as a mismatch and leaves the challenge and the password hashes as they
\* were, and a verify_otp with the right code and email still succeeds after
\* it, now and up to the end of the TTL.
C8_MismatchKeepsChallenge ==
    \A form \in GoodVerifyForms, salt \in Salts :
        LET u == Strip(form.user_id)
            m == forgot_verify_otp(users, OTP_STORE, now, form, salt)
        IN  (/\ u \in DOMAIN OTP_STORE
             /\ Age(OTP_STORE, u) <= OTP_TTL
             /\ \/ Strip(form.otp) # OTP_STORE[u].otp
                \/ Strip(form.email) # OTP_STORE[u].email)
                => /\ MismatchError(m.resp)
                   /\ m.OTP_STORE = OTP_STORE
                   /\ m.users = users
                   /\ \A t \in {now, OTP_STORE[u].timestamp + OTP_TTL} :
                         Success(forgot_verify_otp(m.users, m.OTP_STORE, t,
                                                   RightForm(m.OTP_STORE, u), salt).resp)

\* A challenge is live some time after its issue
C8_Witness ==
    \E u \in DOMAIN OTP_STORE : Age(OTP_STORE, u) \in 1..OTP_TTL

\* C9: verify_otp succeeds for a user_id only on a challenge stored for that
\* user_id and bound to that user's email, not older than OTP_TTL, whose code
\* and email are the ones supplied, and it consumes it; the challenges of the
\* other user_ids make no difference to the answer.
C9_SuccessNeedsOwnLiveChallenge ==
    \A form \in VerifyForms, salt \in Salts :
        LET u == Strip(form.user_id)
            v == forgot_verify_otp(users, OTP_STORE, now, form, salt)
            own == [k \in DOMAIN OTP_STORE \cap {u} |-> OTP_STORE[k]]
        IN  /\ Success(v.resp)
                  => /\ u \in DOMAIN OTP_STORE
                     /\ u \in DOMAIN users
                     /\ OTP_STORE[u].email = users[u].email
                     /\ Age(OTP_STORE, u) <= OTP_TTL
                     /\ OTP_STORE[u].otp = Strip(form.otp)
                     /\ OTP_STORE[u].email = Strip(form.email)
                     /\ u \notin DOMAIN v.OTP_STORE
            /\ forgot_verify_otp(users, own, now, form, salt).resp = v.resp

\* One user has reset the password and has no challenge left while another
\* user's challenge is live
C9_Witness ==
    \E u, o \in DOMAIN users :
        /\ u \notin DOMAIN OTP_STORE
        /\ check_password_hash(users[u].password_hash, NewPassword)
        /\ o \in DOMAIN OTP_STORE
        /\ Age(OTP_STORE, o) <= OTP_TTL

\* C10: a user_id has at most one challenge: a send_otp that sent, for a
\* user_id that has a challenge, puts the new challenge in its place and
\* touches no other; the earlier code, when it differs from the new one, no
\* longer verifies and the new code does.
C10_ReissueReplaces ==
    \A form \in SendForms, n \in OtpSample, env \in SmtpEnvs, salt \in Salts :
        LET u == Strip(form.user_id)
            issue == forgot_send_otp(users, OTP_STORE, now, form, n, env)
            new == Challenge(OtpString(n), Strip(form.email), now)
            withOld == forgot_verify_otp(users, issue.OTP_STORE, now,
                                         RightForm(OTP_STORE, u), salt)
            withNew == forgot_verify_otp(users, issue.OTP_STORE, now,
                                         RightForm(issue.OTP_STORE, u), salt)
        IN  (u \in DOMAIN OTP_STORE /\ issue.resp.message = MsgOtpSent)
                => /\ DOMAIN issue.OTP_STORE = DOMAIN OTP_STORE
                   /\ issue.OTP_STORE[u] = new
                   /\ \A o \in DOMAIN OTP_STORE \ {u} : issue.OTP_STORE[o] = OTP_STORE[o]
                   /\ OTP_STORE[u].otp # new.otp => MismatchError(withOld.resp)
                   /\ Success(withNew.resp)

\* A challenge issued earlier is still stored, so a send_otp now replaces it
C10_Witness ==
    \E u \in DOMAIN OTP_STORE : OTP_STORE[u].timestamp < now

\* The answer of a send_otp that found no user with that user_id and email
IssueNotFound(resp) == resp.error \in {ErrUserNotFound, ErrEmailRecords}

\* C11: a send_otp for a user_id that no row has, or with an email other than
\* the one of that row, fails as not found, leaves OTP_STORE as it was (no
\* challenge made, the one there untouched) and does not call send_email_otp.
C11_IssueNotFoundChangesNothing ==
    \A form \in SendForms, n \in OtpSample, env \in SmtpEnvs :
        LET u == Strip(form.user_id)
            email == Strip(form.email)
            issue == forgot_send_otp(users, OTP_STORE, now, form, n, env)
        IN  (/\ u # "" /\ email # ""
             /\ u \in DOMAIN users => users[u].email # email)
                => /\ IssueNotFound(issue.resp)
                   /\ issue.OTP_STORE = OTP_STORE
                   /\ issue.mailed = {}

\* A user holds a challenge, a send_otp with another email for that user is
\* refused, and so is one for a user_id that no row has
C11_Witness ==
    \E u \in DOMAIN OTP_STORE \cap DOMAIN users, o \in UserIdInputs \ DOMAIN users,
       e \in Emails, n \in OtpSample, env \in SmtpEnvs :
        /\ users[u].email # e
        /\ forgot_send_otp(users, OTP_STORE, now, SendForm(u, e), n, env).resp.error
               = ErrEmailRecords
        /\ forgot_send_otp(users, OTP_STORE, now, SendForm(o, e), n, env).resp.error
               = ErrUserNotFound
\* A string of exactly six ASCII digits
SixDigits(code) == Len(code) = 6 /\ \A i \in 1..Len(code) : IsDigit(CharAt(code, i))

\* Draws of randint(OtpLow, OtpHigh) at and next to the ends of the range and
\* where a digit position turns over
OtpDraws ==
    {OtpLow, OtpLow + 1, OtpLow + 9, OtpLow + 99999, 2 * OtpLow, 5 * OtpLow - 1,
     OtpHigh - 1, OtpHigh}

\* Strings of six digits, with a leading zero and without
SixDigitStrings == {"000000", "012345", "099999", "100000", "543210", "999999"}

\* C12 as stated: the code of every challenge issued is a string of exactly 6
\* ASCII digits, and every string of 6 digits, those with leading zeros
\* included, is the code that some draw of send_otp gives it.
C12_EverySixDigitStringIssued ==
    \A u \in DOMAIN OTP_STORE :
        /\ SixDigits(OTP_STORE[u].otp)
        /\ \A code \in SixDigitStrings :
               \E n \in randint(OtpLow, OtpHigh) : OtpString(n) = code

\* C12, amended: every code of a send_otp is a string of exactly 6 ASCII
\* digits that does not start with 0 (the numeral of a draw of 100000 to
\* 999999), in the draws and in every challenge stored.
C12_CodesAreSixDigitsNoLeadingZero ==
    /\ \A n \in OtpDraws :
           /\ n \in randint(OtpLow, OtpHigh)
           /\ SixDigits(OtpString(n)) /\ CharAt(OtpString(n), 1) # "0"
    /\ \A u \in DOMAIN OTP_STORE :
           SixDigits(OTP_STORE[u].otp) /\ CharAt(OTP_STORE[u].otp, 1) # "0"

\* Two users hold challenges, one with the least code and one with the
\* greatest
C12_Witness ==
    \E u1, u2 \in DOMAIN OTP_STORE :
        /\ OTP_STORE[u1].otp = OtpString(OtpLow)
        /\ OTP_STORE[u2].otp = OtpString(OtpHigh)
\* The step is a verify_otp that succeeded for user_id u: it took away a
\* challenge that had not expired
VerifiedStep(u) ==
    /\ u \in DOMAIN OTP_STORE
    /\ u \notin DOMAIN OTP_STORE'
    /\ ~OtpExpired(now, OTP_STORE[u].timestamp)

\* C13: a verify_otp that succeeds leaves every session as it was (the
\* user_id of the session, present or absent, included): the user is sent to
\* the login page and is signed in only by logging in.
C13_VerifyLeavesSession ==
    [][\A u \in UserIdInputs : VerifiedStep(u) => session' = session]_vars

\* A user has reset the password, holds no challenge, and the session has no
\* user_id but still the identity pending from /auth/google
C13_Witness ==
    \E u \in DOMAIN users, s \in Sessions :
        /\ check_password_hash(users[u].password_hash, NewPassword)
        /\ u \notin DOMAIN OTP_STORE
        /\ "user_id" \notin DOMAIN session[s]
        /\ "google_email" \in DOMAIN session[s]
\* The passwords a user can have before a reset: the one typed at signup and
\* the random one of google_link
OldPasswords == {"oldpass1"} \cup RandomPasswords

\* C14: after a verify_otp that succeeds with a new password, a login with
\* the new password succeeds and the session has the user_id; a login with
\* the password the user had before (another than the new one) fails and
\* leaves the session as it was.
C14_LoginAfterReset ==
    \A form \in GoodVerifyForms, salt \in Salts, s \in Sessions :
        LET u == Strip(form.user_id)
            v == forgot_verify_otp(users, OTP_STORE, now, form, salt)
            new == serve_login(v.users, session[s], LoginForm(u, form.new_password))
        IN  Success(v.resp)
                => /\ new.resp.goto = "dashboard"
                   /\ DictGet(new.session, "user_id", None) = u
                   /\ \A old \in OldPasswords :
                         LET was == serve_login(users, session[s], LoginForm(u, old))
                             is == serve_login(v.users, session[s], LoginForm(u, old))
                         IN  (was.resp.goto = "dashboard" /\ old # form.new_password)
                                => /\ is.resp.error = ErrInvalidLogin
                                   /\ is.session = session[s]

\* A user who logs in with the password of the signup holds a live challenge:
\* the verify_otp with its code succeeds
C14_Witness ==
    \E u \in DOMAIN OTP_STORE \cap DOMAIN users, salt \in Salts :
        /\ check_password_hash(users[u].password_hash, "oldpass1")
        /\ Success(forgot_verify_otp(users, OTP_STORE, now, RightForm(OTP_STORE, u),
                                     salt).resp)
\* A login with a user_id that no row has, however the handler trims or
\* capitalises it
UnknownLogin(form) ==
    /\ Strip(form.user_id) # "" /\ form.password # ""
    /\ Upper(Strip(form.user_id)) \notin DOMAIN users

\* A login with the user_id of a row and a password that is not its password
WrongPasswordLogin(form) ==
    /\ form.user_id \in DOMAIN users /\ form.password # ""
    /\ ~check_password_hash(users[form.user_id].password_hash, form.password)

\* C15: a login with a user_id that no row has and a login with a known
\* user_id and a wrong password get the same answer, the one generic error,
\* and both leave the session as it was.
C15_LoginFailuresAlike ==
    \A f1 \in LoginForms :
        UnknownLogin(f1) =>
            \A f2 \in LoginForms :
                WrongPasswordLogin(f2) =>
                    \A s \in Sessions :
                        LET r1 == serve_login(users, session[s], f1)
                            r2 == serve_login(users, session[s], f2)
                        IN  /\ r1.resp = r2.resp
                            /\ r1.resp.error = ErrInvalidLogin
                            /\ r1.session = session[s]
                            /\ r2.session = session[s]

\* With a session that holds something, one login names a user_id that no
\* row has and another a wrong password, and both are refused
C15_Witness ==
    \E s \in Sessions, f1, f2 \in LoginForms :
        /\ session[s] # EmptyDict
        /\ UnknownLogin(f1) /\ WrongPasswordLogin(f2)
        /\ serve_login(users, session[s], f1).resp.error = ErrInvalidLogin
        /\ serve_login(users, session[s], f2).resp.error = ErrInvalidLogin
\* A token that verifies and carries an email
GoodTokens == {token \in Tokens : token.valid /\ token.email # None}

\* Some row of users has the email
Registered(email) == \E id \in DOMAIN users : users[id].email = email

\* The answer of /auth/google that signs in: the dashboard, with the session
\* on the user_id of the row that has the email
LoginSession(r, email) ==
    /\ r.resp.goto = "dashboard"
    /\ "user_id" \in DOMAIN r.session
    /\ r.session["user_id"] \in DOMAIN users
    /\ users[r.session["user_id"]].email = email

\* C16: a verified token whose email a row has resolves to a login session
\* of that row's user_id from the login page and from the signup page alike;
\* the same token resolved again gives the same; and a step that puts a
\* session on an existing user's id by Google leaves the table users as it was.
C16_ExistingEmailLogsIn ==
    /\ [](\A token \in GoodTokens :
             Registered(token.email) =>
                 \A s \in Sessions, ref1, ref2 \in Referrers :
                     LET r1 == serve_auth_google(users, session[s], token, ref1)
                         r2 == serve_auth_google(users, r1.session, token, ref2)
                     IN  /\ LoginSession(r1, token.email)
                         /\ LoginSession(r2, token.email)
                         /\ r2.session["user_id"] = r1.session["user_id"])
    /\ [][\A s \in Sessions :
             (/\ session'[s] # session[s]
              /\ "google_linked" \in DOMAIN session'[s]
              /\ session'[s]["user_id"] \in DOMAIN users)
                 => users' = users]_vars

\* A session signed in by Google on a user whose row exists, while that
\* user's email comes in a token again
C16_Witness ==
    \E s \in Sessions, token \in GoodTokens :
        /\ Registered(token.email)
        /\ "google_linked" \in DOMAIN session[s]
        /\ session[s]["user_id"] \in DOMAIN users
        /\ users[session[s]["user_id"]].email = token.email
\* The pending federated identity of a session: the google_* keys it holds
Pending_(sess) ==
    [k \in DOMAIN sess \cap {"google_email", "google_name", "google_sub"} |-> sess[k]]

\* C17: a verified token whose email no row has, coming from the login page,
\* is rejected: the answer is an error, the session is as it was (no user_id
\* set, no pending identity stored) and no row is made.
C17_UnknownEmailAtLoginRejected ==
    \A token \in GoodTokens :
        ~Registered(token.email) =>
            \A s \in Sessions, referrer \in Referrers :
                LET r == serve_auth_google(users, session[s], token, referrer)
                IN  referrer = LoginPage
                        => /\ r.resp.error # None
                           /\ r.session = session[s]

RowsOf(email) == {id \in DOMAIN users : users[id].email = email}

\* C19: two google_link submissions for the same pending email, one after
\* the other or at once, leave exactly one row with that email: one of them
\* creates it and the other ends with a conflict error.
C19_DoubleLinkCreatesOne ==
    \A r1, r2 \in 1..NumReqs :
        (/\ r1 # r2
         /\ Finished(r1, "google_link") /\ Finished(r2, "google_link")
         /\ NewEmail(req[r1]) # None
         /\ NewEmail(req[r1]) = NewEmail(req[r2])
         /\ \A id \in DOMAIN users0 : users0[id].email # NewEmail(req[r1])
         /\ \A r \in {r1, r2} : LinkError(Strip(req[r].form.full_name),
                                           Strip(req[r].form.phone),
                                           Strip(req[r].form.country_code)) = None)
            => /\ Cardinality(RowsOf(NewEmail(req[r1]))) = 1
               /\ \/ Created(req[r1].resp) /\ ConflictError(req[r2].resp)
                  \/ Created(req[r2].resp) /\ ConflictError(req[r1].resp)
\* The step puts session s on a user_id it was not on: a login, a Google
\* login of an existing user or a google_link that links
Establishes(s) ==
    /\ "user_id" \in DOMAIN session'[s]
    /\ DictGet(session'[s], "user_id", None) # DictGet(session[s], "user_id", None)

\* C20: after every step that establishes an authenticated session the
\* session holds none of google_email, google_name and google_sub.
C20_EstablishedSessionHasNoPending ==
    [][\A s \in Sessions : Establishes(s) => Pending_(session'[s]) = EmptyDict]_vars
\* The tokens that id_token.verify_oauth2_token refuses
BadTokens == {token \in Tokens : ~token.valid}

\* C21: a token that does not verify is answered with the verification
\* error, once (the answer of the one call of the handler, which verifies
\* once), and the session, its user_id and its pending identity included, is
\* as it was; the handler has no write to the table users.
C21_FailedVerificationChangesNothing ==
    \A token \in BadTokens, s \in Sessions, referrer \in Referrers :
        LET r == serve_auth_google(users, session[s], token, referrer)
        IN  /\ r.resp.goto = "json400"
            /\ r.resp.error = ErrGoogleFailed
            /\ r.session = session[s]

\* A session that holds a user_id or a pending identity, with a user in the
\* table, gets a token that does not verify
C21_Witness ==
    \E s \in Sessions, token \in BadTokens, referrer \in Referrers :
        /\ session[s] # EmptyDict
        /\ users # EmptyDict
        /\ serve_auth_google(users, session[s], token, referrer).resp.error
               = ErrGoogleFailed
\* The numeric suffix of a user_id
Suffix(user_id) == CastInteger(Substr2(user_id))

\* C22: the user_id the next creation is given, and the user_id of every
\* row a step adds to the table, has a numeric suffix above that of every
\* row the table held before; no step takes a user_id out of the table or
\* hands it to another user (the email and the name of a row stay).
C22_NewIdAboveEveryExistingId ==
    /\ [](\A id \in DOMAIN users : Suffix(get_next_user_id(users)) > Suffix(id))
    /\ [][(\A new \in DOMAIN users' \ DOMAIN users :
               \A id \in DOMAIN users : Suffix(new) > Suffix(id))
           /\ (\A old \in DOMAIN users :
                  /\ old \in DOMAIN users'
                  /\ users'[old].email = users[old].email
                  /\ users'[old].name = users[old].name)]_vars

\* A user has been created while the table held another user
C22_Witness ==
    \E id \in DOMAIN users, new \in DOMAIN users :
        /\ Suffix(new) > Suffix(id)
        /\ users[new].email # users[id].email
\* C23: every user_id allocated is the letter P followed by exactly four
\* decimal digits, however many users exist.
C23_AllocatedIdIsPAndFourDigits ==
    allocated # None =>
        /\ Len(allocated) = 5
        /\ CharAt(allocated, 1) = "P"
        /\ \A i \in 2..Len(allocated) : IsDigit(CharAt(allocated, i))
\* C24: get_next_user_id returns the letter P followed by the decimal digits
\* of one more than the greatest numeric suffix in the table, padded with
\* zeros on the left to four digits, and P0001 for the empty table.  (It is
\* a SELECT and a format: the table it is given is the table it leaves.)
C24_NextIdIsMaxPlusOnePadded ==
    LET id == get_next_user_id(users)
    IN  /\ users = EmptyDict => id = "P0001"
        /\ \A m \in DOMAIN users :
               (\A u \in DOMAIN users : Suffix(u) <= Suffix(m))
                   => Suffix(id) = Suffix(m) + 1
        /\ CharAt(id, 1) = "P"
        /\ \A i \in 2..Len(id) : IsDigit(CharAt(id, i))
        /\ Len(id) >= 5
        /\ Len(id) > 5 => CharAt(id, 2) # "0"

\* The table holds two users and the next user_id is P0003
C24_Witness ==
    /\ Cardinality(DOMAIN users) = 2
    /\ get_next_user_id(users) = "P0003"
\* The step is a verify_otp that succeeds for user_id
ResetStep(user_id) ==
    \E form \in VerifyForms, salt \in Salts :
        LET r == forgot_verify_otp(users, OTP_STORE, now, form, salt)
        IN  /\ Strip(form.user_id) = user_id
            /\ Success(r.resp)
            /\ users' = r.users
            /\ OTP_STORE' = r.OTP_STORE
            /\ session' = session

\* The step is a password change that succeeds, made from a session of user_id
ChangeStep(user_id) ==
    \E s \in Sessions, form \in ProfileForms, salt \in Salts :
        LET r == profile(users, session[s], form, salt)
        IN  /\ "user_id" \in DOMAIN session[s]
            /\ session[s]["user_id"] = user_id
            /\ r.resp.message = MsgPasswordUpdated
            /\ users' = r.users
            /\ OTP_STORE' = OTP_STORE
            /\ session' = session

\* C25: no step deletes a row of users or changes its user_id, name, email
\* or phone, and a step changes its password_hash only if it is a verify_otp
\* that succeeds for that user_id or a password change that succeeds in a
\* session of that user.
C25_RowsStayAndHashChangesByOwner ==
    [][\A id \in DOMAIN users :
          /\ id \in DOMAIN users'
          /\ users'[id].name = users[id].name
          /\ users'[id].email = users[id].email
          /\ users'[id].phone = users[id].phone
          /\ users'[id].password_hash # users[id].password_hash
                => ResetStep(id) \/ ChangeStep(id)]_vars

\* Two users, one has a new password and holds the session, the other has
\* the password of the signup
C25_Witness ==
    \E id \in DOMAIN users, other \in DOMAIN users, s \in Sessions :
        /\ id # other
        /\ impl = "modules"
        /\ "user_id" \in DOMAIN session[s]
        /\ session[s]["user_id"] = id
        /\ check_password_hash(users[id].password_hash, NewPassword)
        /\ ~check_password_hash(users[other].password_hash, NewPassword)
\* SMTP_HOST, SMTP_USERNAME and SMTP_PASSWORD are all set
Configured(env) == env.host /\ env.user /\ env.password

\* The answer shows the code: as the preview, or inside its message or error
Shows(resp, otp) ==
    \/ resp.preview = otp
    \/ Contains(resp.message, otp)
    \/ Contains(resp.error, otp)

\* C26: with no transport configured send_email_otp reports that it sent,
\* and the answer of a send_otp that issued a code shows that code; with a
\* transport configured no answer of send_otp shows the code, delivered or not.
C26_PreviewOnlyWithoutTransport ==
    \A env \in AllSmtpEnvs, form \in SendForms, n \in OtpSample :
        LET r == forgot_send_otp(users, OTP_STORE, now, form, n, env)
            otp == OtpString(n)
        IN  /\ ~Configured(env) =>
                  /\ send_email_otp(env, Strip(form.email), otp).sent
                  /\ r.mailed # {} => r.resp.error = None /\ r.resp.preview = otp
            /\ Configured(env) => ~Shows(r.resp, otp)

\* A user holds a challenge, and a send_otp for that user issues a new code
\* with no transport configured
C26_Witness ==
    \E env \in AllSmtpEnvs, form \in SendForms, n \in OtpSample :
        /\ ~Configured(env)
        /\ Strip(form.user_id) \in DOMAIN OTP_STORE
        /\ forgot_send_otp(users, OTP_STORE, now, form, n, env).resp.preview
               = OtpString(n)
\* C27: an environment that only lacks transport settings (the code reads no
\* setting that enables the fallback) never makes send_otp show the code.
C27_MissingSettingsNeverShowCode ==
    \A env \in AllSmtpEnvs, form \in SendForms, n \in OtpSample :
        ~Configured(env) =>
            ~Shows(forgot_send_otp(users, OTP_STORE, now, form, n, env).resp,
                   OtpString(n))
\* The verify_otp form has a code, and a new password of the length asked, twice
FieldsPass(form) ==
    /\ Strip(form.otp) # ""
    /\ Len(form.new_password) >= MinPasswordLen
    /\ form.new_password = form.confirm_password

\* The answer shows none of the codes of the store
ShowsNoCode(resp, store) == \A u \in DOMAIN store : ~Shows(resp, store[u].otp)

\* C28: a verify_otp that fails says which failure it is (no challenge for
\* the user_id, challenge expired, code or email wrong) and a send_otp that
\* fails says whether the user was not found or the email could not be sent;
\* none of these answers shows a code of the store, the one just stored by a
\* send_otp whose email failed included.
C28_FailuresNamedAndCodeHidden ==
    /\ \A form \in VerifyForms, salt \in Salts :
           LET r == forgot_verify_otp(users, OTP_STORE, now, form, salt)
               u == Strip(form.user_id)
           IN  ~Success(r.resp) =>
                   /\ r.resp.error # None
                   /\ ShowsNoCode(r.resp, OTP_STORE)
                   /\ FieldsPass(form) =>
                          IF u \notin DOMAIN OTP_STORE THEN NotFoundError(r.resp)
                          ELSE IF OtpExpired(now, OTP_STORE[u].timestamp)
                          THEN ExpiredError(r.resp)
                          ELSE MismatchError(r.resp)
    /\ \A form \in SendForms, n \in OtpSample, env \in AllSmtpEnvs :
           LET r == forgot_send_otp(users, OTP_STORE, now, form, n, env)
               u == Strip(form.user_id)
           IN  r.resp.message # MsgOtpSent =>
                   /\ r.resp.error # None
                   /\ ShowsNoCode(r.resp, OTP_STORE)
                   /\ ShowsNoCode(r.resp, r.OTP_STORE)
                   /\ (u # "" /\ Strip(form.email) # "") =>
                          IF r.mailed = {} THEN IssueNotFound(r.resp)
                          ELSE r.resp.error = ErrSendFailed

\* A user holds a live challenge, and a verify_otp with a wrong code and a
\* send_otp whose email fails are both answered with their error
C28_Witness ==
    \E u \in DOMAIN OTP_STORE :
        /\ ~OtpExpired(now, OTP_STORE[u].timestamp)
        /\ \E form \in VerifyForms, salt \in Salts :
               /\ Strip(form.user_id) = u
               /\ Strip(form.otp) # OTP_STORE[u].otp
               /\ MismatchError(forgot_verify_otp(users, OTP_STORE, now, form, salt).resp)
        /\ \E form \in SendForms, n \in OtpSample, env \in AllSmtpEnvs :
               /\ Strip(form.user_id) = u
               /\ forgot_send_otp(users, OTP_STORE, now, form, n, env).resp.error
                      = ErrSendFailed
\* C29: a step takes the challenge of a user_id out of OTP_STORE only as the
\* del of a verify_otp that loaded that same challenge (and found it right
\* or expired), and replaces it only as the store of a send_otp for that
\* user_id; so no verify_otp deletes a challenge stored after the one it
\* loaded, whatever the interleaving.
C29_VerifyDeletesTheChallengeItChecked ==
    [][\A u \in DOMAIN OTP_STORE :
          /\ u \notin DOMAIN OTP_STORE' =>
                \E r \in 1..NumReqs :
                    /\ At(r, "verify_del")
                    /\ Strip(req[r].form.user_id) = u
                    /\ req[r].stored_otp = {OTP_STORE[u]}
          /\ (u \in DOMAIN OTP_STORE' /\ OTP_STORE'[u] # OTP_STORE[u]) =>
                \E r \in 1..NumReqs :
                    /\ At(r, "send_store")
                    /\ Strip(req[r].form.user_id) = u]_vars
\* C30: a verify_otp for a user_id that has no challenge fails as not found
\* and leaves OTP_STORE and the table users as they were; a verify_otp with a
\* wrong code or a wrong email on a challenge older than OTP_TTL fails as
\* expired, not as a mismatch, and deletes that challenge and no other.
C30_NoChallengeAndExpiredFirst ==
    \A form \in GoodVerifyForms, salt \in Salts :
        LET u == Strip(form.user_id)
            v == forgot_verify_otp(users, OTP_STORE, now, form, salt)
        IN  /\ u \notin DOMAIN OTP_STORE
                  => /\ NotFoundError(v.resp)
                     /\ v.OTP_STORE = OTP_STORE
                     /\ v.users = users
            /\ (/\ u \in DOMAIN OTP_STORE
                /\ Age(OTP_STORE, u) > OTP_TTL
                /\ \/ Strip(form.otp) # OTP_STORE[u].otp
                   \/ Strip(form.email) # OTP_STORE[u].email)
                  => /\ ExpiredError(v.resp)
                     /\ DOMAIN v.OTP_STORE = DOMAIN OTP_STORE \ {u}
                     /\ \A o \in DOMAIN v.OTP_STORE : v.OTP_STORE[o] = OTP_STORE[o]
                     /\ v.users = users

\* One user has a challenge older than OTP_TTL, another user has none, and
\* a verify_otp with a wrong code on the first is answered as expired
C30_Witness ==
    \E u \in DOMAIN OTP_STORE, o \in DOMAIN users \ DOMAIN OTP_STORE :
        /\ Age(OTP_STORE, u) > OTP_TTL
        /\ \E form \in GoodVerifyForms, salt \in Salts :
               /\ Strip(form.user_id) = u
               /\ Strip(form.otp) # OTP_STORE[u].otp
               /\ ExpiredError(forgot_verify_otp(users, OTP_STORE, now, form, salt).resp)
\* C31: a restart of the server empties OTP_STORE and keeps the table users;
\* right after it a verify_otp with the code and the email of any challenge
\* the old process held fails as not found and leaves the password hashes
\* as they were.
C31_RestartForgetsChallenges ==
    [][Restart =>
          /\ users' = users
          /\ \A u \in DOMAIN OTP_STORE, salt \in Salts :
                LET v == forgot_verify_otp(users', OTP_STORE', now',
                                           RightForm(OTP_STORE, u), salt)
                IN  /\ NotFoundError(v.resp)
                    /\ v.users = users
                    /\ v.OTP_STORE = EmptyDict]_vars

\* The server was restarted: a user has the password of the signup, no
\* challenge is stored and a verify_otp for that user is not found
C31_Witness ==
    /\ boot > 0
    /\ OTP_STORE = EmptyDict
    /\ \E u \in DOMAIN users, form \in GoodVerifyForms, salt \in Salts :
          /\ Strip(form.user_id) = u
          /\ ~check_password_hash(users[u].password_hash, NewPassword)
          /\ NotFoundError(forgot_verify_otp(users, OTP_STORE, now, form, salt).resp)
\* C32: a verify_otp that succeeds for user_id u changes the password_hash
\* of the row of u and nothing else in the table users, and takes the
\* challenge of u out of OTP_STORE and leaves every other challenge as it was.
C32_VerifyTouchesOnlyItsUser ==
    \A form \in GoodVerifyForms, salt \in Salts :
        LET u == Strip(form.user_id)
            v == forgot_verify_otp(users, OTP_STORE, now, form, salt)
        IN  Success(v.resp) =>
                /\ DOMAIN v.users = DOMAIN users
                /\ \A o \in DOMAIN users \ {u} : v.users[o] = users[o]
                /\ v.users[u] =
                      [users[u] EXCEPT !.password_hash = v.users[u].password_hash]
                /\ DOMAIN v.OTP_STORE = DOMAIN OTP_STORE \ {u}
                /\ \A o \in DOMAIN v.OTP_STORE : v.OTP_STORE[o] = OTP_STORE[o]

\* Two users hold a live challenge each, and a verify_otp for one succeeds
C32_Witness ==
    \E u \in DOMAIN OTP_STORE, o \in DOMAIN OTP_STORE, salt \in Salts :
        /\ u # o
        /\ Age(OTP_STORE, o) <= OTP_TTL
        /\ Success(forgot_verify_otp(users, OTP_STORE, now,
                                     RightForm(OTP_STORE, u), salt).resp)
\* The answers of verify_otp to a form it does not take
FieldError(resp) ==
    resp.error \in {ErrAllRequired, ErrPasswordShort, ErrPasswordsDiffer}

\* C33: a verify_otp whose code, new password or confirmation is missing,
\* whose new password is shorter than MinPasswordLen or differs from the
\* confirmation is answered with that error and OTP_STORE (an expired
\* challenge of that user_id included) and the table users are as they were.
C33_FieldChecksComeFirst ==
    \A form \in VerifyForms, salt \in Salts :
        LET v == forgot_verify_otp(users, OTP_STORE, now, form, salt)
        IN  ~FieldsPass(form) =>
                /\ FieldError(v.resp)
                /\ v.OTP_STORE = OTP_STORE
                /\ v.users = users

\* A challenge is older than OTP_TTL and a verify_otp with the right code
\* and email for it has a field wrong
C33_Witness ==
    \E u \in DOMAIN OTP_STORE, form \in VerifyForms, salt \in Salts :
        /\ Age(OTP_STORE, u) > OTP_TTL
        /\ Strip(form.user_id) = u
        /\ Strip(form.email) = OTP_STORE[u].email
        /\ Strip(form.otp) = OTP_STORE[u].otp
        /\ FieldError(forgot_verify_otp(users, OTP_STORE, now, form, salt).resp)
\* C34: a send_otp whose email fails has stored its challenge all the same:
\* the challenge of that user_id is the new one, in the place of any earlier
\* one, and a verify_otp with the new code and the email succeeds, now and
\* up to OTP_TTL seconds later.
C34_FailedDeliveryKeepsChallenge ==
    \A form \in SendForms, n \in OtpSample, env \in SmtpEnvs, salt \in Salts :
        LET u == Strip(form.user_id)
            issue == forgot_send_otp(users, OTP_STORE, now, form, n, env)
            new == Challenge(OtpString(n), Strip(form.email), now)
        IN  issue.resp.error = ErrSendFailed =>
                /\ u \in DOMAIN issue.OTP_STORE
                /\ issue.OTP_STORE[u] = new
                /\ \A t \in {now, now + OTP_TTL} :
                      Success(forgot_verify_otp(users, issue.OTP_STORE, t,
                                                VerifyForm(u, new.email, new.otp,
                                                           NewPassword, NewPassword),
                                                salt).resp)

\* A user holds a challenge with another code, issued earlier, and the
\* email of a new send_otp for that user fails
C34_Witness ==
    \E u \in DOMAIN OTP_STORE, form \in SendForms, n \in OtpSample, env \in SmtpEnvs :
        /\ Strip(form.user_id) = u
        /\ OTP_STORE[u].otp # OtpString(n)
        /\ OTP_STORE[u].timestamp < now
        /\ forgot_send_otp(users, OTP_STORE, now, form, n, env).resp.error
               = ErrSendFailed
\* The step gives session s a user_id it did not hold
SetsUser(s) ==
    /\ "user_id" \in DOMAIN session'[s]
    /\ "user_id" \in DOMAIN session[s] => session'[s]["user_id"] # session[s]["user_id"]

\* The step is a login to user_id id with a password that its hash verifies
ByLogin(s, id) ==
    \E form \in LoginForms :
        /\ id \in DOMAIN users
        /\ id \in {Upper(form.user_id), Strip(form.user_id)}
        /\ check_password_hash(users[id].password_hash, form.password)
        /\ session'[s] = serve_login(users, session[s], form).session
        /\ users' = users

\* The step is an /auth/google with a token verified for the email of user id
ByToken(s, id) ==
    \E token \in GoodTokens, referrer \in Referrers :
        /\ id \in DOMAIN users
        /\ users[id].email = token.email
        /\ session'[s] = serve_auth_google(users, session[s], token, referrer).session
        /\ users' = users

\* The step is a /google-link that created or found user id for the email
\* pending in the session
ByLink(s, id) ==
    \E form \in LinkForms, salt \in Salts, temp_password \in RandomPasswords :
        LET r == serve_google_link(users, session[s], form, salt, temp_password)
        IN  /\ "google_email" \in DOMAIN session[s]
            /\ id \in DOMAIN r.users
            /\ r.users[id].email = session[s]["google_email"]
            /\ session'[s] = r.session
            /\ users' = r.users

\* C35: the user_id of a session is always the user_id of a row of users, and
\* every step that gives a session a user_id is a login whose password the
\* hash of that user verifies, an /auth/google whose verified email is that
\* user's, or a /google-link that created or found that user.
C35_SessionUserExistsAndWasAuthenticated ==
    /\ [](\A s \in Sessions :
             "user_id" \in DOMAIN session[s] => session[s]["user_id"] \in DOMAIN users)
    /\ [][\A s \in Sessions :
             SetsUser(s) =>
                 LET id == session'[s]["user_id"]
                 IN  ByLogin(s, id) \/ ByToken(s, id) \/ ByLink(s, id)]_vars

\* The session holds the user_id of a user that /google-link created, and
\* another user exists who signed up with a password
C35_Witness ==
    \E s \in Sessions, o \in DOMAIN users :
        /\ "user_id" \in DOMAIN session[s]
        /\ session[s]["user_id"] \in DOMAIN users
        /\ session[s]["user_id"] # o
        /\ users[session[s]["user_id"]].password_hash.pw \in RandomPasswords
        /\ users[o].password_hash.pw \notin RandomPasswords
\* The step stores the pending email of a token that verified
PendingFromToken(s) ==
    \E token \in GoodTokens, referrer \in Referrers :
        /\ token.email = session'[s]["google_email"]
        /\ session'[s] = serve_auth_google(users, session[s], token, referrer).session

\* C36: a /google-link in a session with no pending email creates no row and
\* leaves the session as it was; a row that /google-link creates has the
\* pending email of the session; a pending email gets into a session only
\* from a token that verified, and a row with the random password of the
\* Google path gets into the table only with the pending email of a session.
C36_LinkCreatesOnlyForPendingIdentity ==
    /\ [](\A s \in Sessions, form \in LinkForms, salt \in Salts,
             temp_password \in RandomPasswords :
             LET r == serve_google_link(users, session[s], form, salt, temp_password)
             IN  /\ "google_email" \notin DOMAIN session[s]
                       => r.users = users /\ r.session = session[s]
                 /\ \A id \in DOMAIN r.users \ DOMAIN users :
                       /\ "google_email" \in DOMAIN session[s]
                       /\ r.users[id].email = session[s]["google_email"])
    /\ [][(\A s \in Sessions :
              (/\ "google_email" \in DOMAIN session'[s]
               /\ "google_email" \in DOMAIN session[s]
                      => session'[s]["google_email"] # session[s]["google_email"])
                  => PendingFromToken(s))
           /\ (\A id \in DOMAIN users' \ DOMAIN users :
                  users'[id].password_hash.pw \in RandomPasswords
                      => \E s \in Sessions :
                             /\ "google_email" \in DOMAIN session[s]
                             /\ users'[id].email = session[s]["google_email"])]_vars

\* A user created by /google-link exists, and the session, signed out since,
\* holds no pending email, so that a /google-link now is sent to the login
C36_Witness ==
    \E id \in DOMAIN users, s \in Sessions, form \in LinkForms, salt \in Salts,
       temp_password \in RandomPasswords :
        /\ users[id].password_hash.pw \in RandomPasswords
        /\ "google_email" \notin DOMAIN session[s]
        /\ "user_id" \notin DOMAIN session[s]
        /\ serve_google_link(users, session[s], form, salt, temp_password).resp.message
               = MsgGoogleFirst
\* C37: a password change writes the table users only when the session has
\* a user, the current password supplied verifies against the hash of that
\* user, and the new password is its confirmation and has MinPasswordLen
\* characters; it then changes the password_hash of that user, to one that
\* verifies the new password, and no other field and no other row.
C37_ProfileChangesOwnHashOnly ==
    \A s \in Sessions, form \in ProfileForms, salt \in Salts :
        LET r == profile(users, session[s], form, salt)
            own == session[s]["user_id"]
        IN  r.users # users =>
                /\ "user_id" \in DOMAIN session[s]
                /\ own \in DOMAIN users
                /\ check_password_hash(users[own].password_hash,
                                       Strip(form.current_password))
                /\ Strip(form.new_password) = Strip(form.confirm_password)
                /\ Len(Strip(form.new_password)) >= MinPasswordLen
                /\ DOMAIN r.users = DOMAIN users
                /\ \A o \in DOMAIN users \ {own} : r.users[o] = users[o]
                /\ r.users[own] =
                      [users[own] EXCEPT !.password_hash = r.users[own].password_hash]
                /\ check_password_hash(r.users[own].password_hash,
                                       Strip(form.new_password))

\* Two users, the one of the session has changed the password and the form
\* with the password of the signup as the current one is refused
C37_Witness ==
    \E s \in Sessions, o \in DOMAIN users :
        /\ "user_id" \in DOMAIN session[s]
        /\ session[s]["user_id"] \in DOMAIN users
        /\ session[s]["user_id"] # o
        /\ check_password_hash(users[session[s]["user_id"]].password_hash, NewPassword)
        /\ ~check_password_hash(users[o].password_hash, NewPassword)
        /\ profile(users, session[s],
                   ProfileForm("oldpass1", "newpass2", "newpass2"), "s1").resp.error
               = ErrCurrentPassword
\* C38: a protected page is rendered, and an /api/eda endpoint answers with
\* data, only for a session that holds a user_id; for a session without one
\* the page is the redirect to the login and the endpoint answers 401.  This
\* holds in every state, and in the state a logout leaves in particular.
C38_ProtectedNeedsUserId ==
    /\ [](\A s \in Sessions, raises \in BOOLEAN :
             LET page == serve_protected_page(users, session[s])
                 api == eda_api(session[s], raises)
             IN  /\ "user_id" \notin DOMAIN session[s]
                       => page.goto = "login" /\ api.goto = "json401"
                 /\ page.goto = "render" => "user_id" \in DOMAIN session[s]
                 /\ api.goto = "json200" => "user_id" \in DOMAIN session[s])
    /\ [][\A s \in Sessions :
             ("user_id" \in DOMAIN session[s] /\ "user_id" \notin DOMAIN session'[s])
                 => /\ serve_protected_page(users', session'[s]).goto = "login"
                    /\ eda_api(session'[s], FALSE).goto = "json401"]_vars

\* The user that /google-link created and signed in has logged out: the
\* session is empty and the protected page sends to the login
C38_Witness ==
    \E id \in DOMAIN users, s \in Sessions :
        /\ users[id].password_hash.pw \in RandomPasswords
        /\ session[s] = EmptyDict
        /\ serve_protected_page(users, session[s]).goto = "login"
\* C39: a logout leaves the session without any key, the user_id and the
\* pending Google identity included, so that /google-link and the protected
\* pages then send to the login; the table users and OTP_STORE are as they
\* were.
C39_LogoutClearsSessionOnly ==
    [][\A s \in Sessions :
          Logout(s) =>
              /\ DOMAIN session'[s] = {}
              /\ users' = users
              /\ OTP_STORE' = OTP_STORE
              /\ serve_protected_page(users', session'[s]).goto = "login"
              /\ \A form \in LinkForms, salt \in Salts, temp_password \in RandomPasswords :
                    serve_google_link(users', session'[s], form, salt,
                                      temp_password).resp.message = MsgGoogleFirst]_vars

\* The user that /google-link created and signed in has logged out while a
\* challenge is stored: the session is empty, the user and the challenge are there
C39_Witness ==
    \E id \in DOMAIN users, s \in Sessions :
        /\ users[id].password_hash.pw \in RandomPasswords
        /\ session[s] = EmptyDict
        /\ OTP_STORE # EmptyDict
\* C40: a signup with a form that fails a check, or with an email that has
\* a row, is answered with an error, leaves the table users as it was and
\* the next user_id the same; and a step that adds a row with the password
\* of a signup form leaves every session as it was.
C40_FailedSignupChangesNothing ==
    /\ [](\A form \in SignupForms, salt \in Salts :
             LET r == signup(users, form, salt)
             IN  (form \notin GoodSignupForms \/ Registered(Strip(form.email)))
                     => /\ r.resp.error # None
                        /\ r.users = users
                        /\ get_next_user_id(r.users) = get_next_user_id(users))
    /\ [][\A id \in DOMAIN users' \ DOMAIN users :
             users'[id].password_hash.pw \notin RandomPasswords
                 => session' = session]_vars

\* A user has signed up while the session held the user_id of another user,
\* and a signup with the email of either is refused
C40_Witness ==
    \E s \in Sessions, id \in DOMAIN users, form \in GoodSignupForms, salt \in Salts :
        /\ "user_id" \in DOMAIN session[s]
        /\ session[s]["user_id"] \in DOMAIN users
        /\ Suffix(id) > Suffix(session[s]["user_id"])
        /\ users[id].password_hash.pw \notin RandomPasswords
        /\ signup(users, form, salt).resp.error = ErrEmailExists
====
